---- MODULE Spec2Model ----
(***************************************************************************)
(* DevMemory: the PostgreSQL-backed content store (projects, memories,     *)
(* sessions, file_index, usage_stats), the MCP tool handlers with their    *)
(* usage recorder, the cross-entity aggregator SearchAll, the embedding    *)
(* gateway and the in-process event bus.                                   *)
(*                                                                         *)
(* The module holds several specifications over one set of variables:      *)
(*   SpecStore  - the Store API called directly (upserts, deletes)         *)
(*   Spec       - the MCP tool handlers over the store                     *)
(*   SpecSearchAll - the cross-entity aggregator over a populated store     *)
(*   SpecEmbed  - the embedding gateway                                    *)
(*   SpecBus    - the event bus with concurrent publishers and subscribers *)
(*   SpecTenants - the Store API on a store with two registered tenants    *)
(*   SpecUsage  - one tool call on a populated store                       *)
(*   SpecTokens - recordUsage called with every tool name                  *)
(*   SpecDashboard - GetDashboardStats next to concurrent tool calls       *)
(* A specification leaves the variables of the other parts at their        *)
(* initial values.                                                         *)
(***************************************************************************)
EXTENDS Integers, Sequences, FiniteSets, TLC

VARIABLES
    projects,      \* table projects: set of rows [id, name]
    memories,      \* table memories: set of rows
    sessions,      \* table sessions: set of rows
    file_index,    \* table file_index: set of rows
    usage_stats,   \* table usage_stats: sequence of rows, in insertion order
    memSeq,        \* BIGSERIAL sequence of memories.id (last value handed out)
    sessSeq,       \* BIGSERIAL sequence of sessions.id
    fileSeq,       \* BIGSERIAL sequence of file_index.id
    ops,           \* number of operations issued so far (bounded by MaxOps)
    last,          \* the last operation: its name, arguments and outcome
    embCfg,        \* embedding.Service: [url, dim]
    httpRequests,  \* number of requests the embedding client has sent
    lastEmbed,     \* the last Embed call: its text, the response and the result
    eventsWired,   \* mcp.Server.events != nil (SetEvents was called)
    published,     \* number of Publish calls the MCP server has made
    okCalls,       \* number of tool calls that returned a non-error result
    lastCall,      \* the last tool call: its arguments, result and collaborator calls
    saCall,        \* the last SearchAll call: its arguments, executor calls and result
    clients,       \* EventBus.clients: the registered subscribers
    inbox,         \* each subscriber's channel buffer (capacity 16)
    subPc,         \* each subscriber: "new", "subscribing", "subscribed" (consuming),
                   \* "unsub" (in unsub, before Lock), "drain" (in the range loop), "done"
    pubPc,         \* each publisher: "idle" or "locked" (inside Publish, holding RLock)
    pubTodo,       \* each publisher: the clients its range loop has still to visit
    pubSkipped,    \* each publisher: the clients its select skipped in this Publish
    dash,          \* GetDashboardStats: its position, the DashboardStats it fills, the
                   \* projects its loop has still to visit, its error
    aged,          \* number of usage_stats rows (the oldest) older than 24 hours
    upd,           \* handleAPIMemoryUpdate: its position, the request, the memory it
                   \* found and what its SetMemory met and wrote
    mode,          \* cfg.Transport of the running process: "stdio", "sse" or "web";
                   \* "component" where a part is taken without main
    mig,           \* RunMigrations: the schema_migrations table, the migrations whose
                   \* SQL was executed (in order), each process's position, the runs
    bf             \* the backfill command: the two transcript directories, the
                   \* position of main and of loadTranscriptsAsSessions, the total

storeVars == <<projects, memories, sessions, file_index, usage_stats,
               memSeq, sessSeq, fileSeq>>
embedVars == <<embCfg, httpRequests, lastEmbed>>
mcpVars == <<eventsWired, published, okCalls, lastCall>>
searchVars == <<saCall>>
busVars == <<clients, inbox, subPc, pubPc, pubTodo, pubSkipped>>
dashVars == <<dash, aged>>
procVars == <<upd, mode, mig, bf>>
vars == <<projects, memories, sessions, file_index, usage_stats,
          memSeq, sessSeq, fileSeq, ops, last, embCfg, httpRequests, lastEmbed,
          eventsWired, published, okCalls, lastCall, saCall,
          clients, inbox, subPc, pubPc, pubTodo, pubSkipped, dash, aged, upd, mode, mig, bf>>

(***************************************************************************)
(* Bounds of the model.                                                    *)
(***************************************************************************)
MaxOps == 3
MaxEmbedCalls == 2
MaxRows == 6
MaxSearches == 1
MaxResults == 3
MaxRecords == 2
MaxRuns == 3

(***************************************************************************)
(* Input domains.                                                          *)
(***************************************************************************)
ProjectIDs == {"p1", "p2"}
Topics == {"arch"}
Keys == {"db"}
Values == {"auth", "db"}
SessionNums == {1}
Titles == {"kickoff", "review"}
Summaries == {"", "auth"}
Contents == {""}
FilePaths == {"main.go"}
FileTypes == {"go"}

(***************************************************************************)
(* Vectors.  A Go []float32 is nil or a slice of some length; only its     *)
(* nil-ness, its length and its contents (an identifier) are modelled.     *)
(* The column type of every embedding column is vector(384).               *)
(***************************************************************************)
ColumnDim == 384

NilVector == [tag |-> "nil", dim |-> 0, id |-> 0]
Vec(d, i) == [tag |-> "vec", dim |-> d, id |-> i]
SqlNull == [tag |-> "null", dim |-> 0, id |-> 0]

\* The vectors handed to the Store API: absent, two of the column's dimension,
\* and one of another dimension (which the column rejects).
Vectors == {NilVector, Vec(ColumnDim, 1), Vec(ColumnDim, 2), Vec(3, 1)}

\* vectorToString: the pgvector literal "[f1,f2,...]" of a slice, "[]" when empty.
vectorToString(v) == [tag |-> "lit", dim |-> v.dim, id |-> IF v.dim = 0 THEN 0 ELSE v.id]

\* embStr: a nil *string (SQL NULL) when the embedding is nil, else the literal.
EmbStr(embedding) ==
    IF embedding.tag # "nil" THEN vectorToString(embedding) ELSE SqlNull

\* $n::vector assigned to a vector(384) column: NULL stays NULL; a literal of no
\* element or of another dimension is an error of the statement.
CastFails(embStr) == embStr.tag = "lit" /\ embStr.dim # ColumnDim
CastVector(embStr) ==
    IF embStr.tag = "null" THEN SqlNull
    ELSE [tag |-> "vector", dim |-> embStr.dim, id |-> embStr.id]

\* COALESCE(a, b)
Coalesce(a, b) == IF a.tag # "null" THEN a ELSE b

(***************************************************************************)
(* Embedding gateway (embedding.Service).                                  *)
(***************************************************************************)
EmbeddingURLs == {"", "http://localhost:8091/embed", "%zz"}
EmbeddingDims == {0, 3, ColumnDim}
Texts == {"", "auth", "db"}
StatusOK == 200

\* New(url, dim)
New(url, dim) == [url |-> url, dim |-> dim]

\* Enabled: s.url != ""
Enabled(s) == s.url # ""

\* http.NewRequestWithContext fails on a URL that does not parse.
URLParses(url) == url # "%zz"

\* What the exchange with the service can give: a transport failure (refused,
\* timed out), or a response with a status and a body.  A body is malformed
\* JSON, or a JSON object whose "embedding" is missing (decoded as a nil slice)
\* or an array of some length.
Bodies ==
    {[json |-> FALSE, embedding |-> NilVector]}
    \cup {[json |-> TRUE, embedding |-> v] :
            v \in {NilVector, Vec(0, 0), Vec(3, 1), Vec(ColumnDim, 1), Vec(ColumnDim, 2),
                   Vec(ColumnDim + 1, 1)}}
Responses ==
    {[transport |-> FALSE, status |-> 0, body |-> [json |-> FALSE, embedding |-> NilVector]]}
    \cup {[transport |-> TRUE, status |-> st, body |-> b] : st \in {StatusOK, 500}, b \in Bodies}

\* Whether Embed reaches s.client.Do(req).
EmbedSendsRequest(s, text) == Enabled(s) /\ text # "" /\ URLParses(s.url)

\* Embed without the check of the response's length.
EmbedNoDimCheck(s, text, resp) ==
    IF ~Enabled(s) \/ text = "" THEN NilVector
    ELSE IF ~URLParses(s.url) THEN NilVector
    ELSE IF ~resp.transport THEN NilVector
    ELSE IF resp.status # StatusOK THEN NilVector
    ELSE IF ~resp.body.json THEN NilVector
    ELSE resp.body.embedding

\* Embed(ctx, text): the vector, or nil.
Embed(s, text, resp) ==
    IF ~Enabled(s) \/ text = "" THEN NilVector
    ELSE IF ~URLParses(s.url) THEN NilVector
    ELSE IF ~resp.transport THEN NilVector
    ELSE IF resp.status # StatusOK THEN NilVector
    ELSE IF ~resp.body.json THEN NilVector
    ELSE IF resp.body.embedding.dim # s.dim THEN NilVector
    ELSE resp.body.embedding

NoEmbed == [text |-> "", resp |-> CHOOSE r \in Responses : ~r.transport,
            result |-> NilVector, called |-> FALSE, sent |-> FALSE]

(***************************************************************************)
(* Store operations.  Each is one SQL statement; it returns the error flag *)
(* and the table (and sequence) after the statement.  dbUp = FALSE is a    *)
(* failure of the connection: the statement has no effect.                 *)
(***************************************************************************)
ProjectExists(pid) == \E p \in projects : p.id = pid

\* INSERT INTO projects ... ON CONFLICT (id) DO UPDATE SET name=...
CreateProject(p, dbUp) ==
    IF ~dbUp THEN [err |-> TRUE, rows |-> projects]
    ELSE IF ProjectExists(p.id)
         THEN [err |-> FALSE,
               rows |-> {IF r.id = p.id THEN [r EXCEPT !.name = p.name] ELSE r : r \in projects}]
         ELSE [err |-> FALSE, rows |-> projects \cup {[id |-> p.id, name |-> p.name]}]

\* SELECT ... FROM projects ORDER BY name (the order is not modelled)
ListProjects == projects

\* The natural key of a memory taken without its tenant.
MemoryMatchesAnyTenant(r, pid, topic, key) ==
    r.topic = topic /\ r.key = key

MemoryMatches(r, pid, topic, key) ==
    r.project_id = pid /\ r.topic = topic /\ r.key = key

\* SetMemory with "embedding=$5::vector" in place of the COALESCE.
SetMemoryOverwritesVector(m, embedding, dbUp) ==
    LET embStr == EmbStr(embedding)
        hit == {r \in memories : MemoryMatches(r, m.project_id, m.topic, m.key)}
    IN IF ~dbUp \/ CastFails(embStr)
       THEN [err |-> TRUE, rows |-> memories, seq |-> memSeq]
       ELSE IF hit # {}
       THEN [err |-> FALSE,
             rows |-> {IF r \in hit
                       THEN [r EXCEPT !.value = m.value, !.embedding = CastVector(embStr)]
                       ELSE r : r \in memories},
             seq |-> memSeq + 1]
       ELSE IF ~ProjectExists(m.project_id)
       THEN [err |-> TRUE, rows |-> memories, seq |-> memSeq + 1]
       ELSE [err |-> FALSE,
             rows |-> memories \cup
                      {[id |-> memSeq + 1, project_id |-> m.project_id, topic |-> m.topic,
                        key |-> m.key, value |-> m.value,
                        embedding |-> CastVector(embStr)]},
             seq |-> memSeq + 1]

\* SetMemory on a table without the REFERENCES projects(id) constraint.
SetMemoryNoForeignKey(m, embedding, dbUp) ==
    LET embStr == EmbStr(embedding)
        hit == {r \in memories : MemoryMatches(r, m.project_id, m.topic, m.key)}
    IN IF ~dbUp \/ CastFails(embStr)
       THEN [err |-> TRUE, rows |-> memories, seq |-> memSeq]
       ELSE IF hit # {}
       THEN [err |-> FALSE,
             rows |-> {IF r \in hit
                       THEN [r EXCEPT !.value = m.value,
                                      !.embedding = Coalesce(CastVector(embStr), r.embedding)]
                       ELSE r : r \in memories},
             seq |-> memSeq + 1]
       ELSE [err |-> FALSE,
             rows |-> memories \cup
                      {[id |-> memSeq + 1, project_id |-> m.project_id, topic |-> m.topic,
                        key |-> m.key, value |-> m.value,
                        embedding |-> CastVector(embStr)]},
             seq |-> memSeq + 1]

\* INSERT INTO memories ... ON CONFLICT (project_id, topic, key) DO UPDATE
\* SET value=$4, embedding=COALESCE($5::vector, memories.embedding)
SetMemory(m, embedding, dbUp) ==
    LET embStr == EmbStr(embedding)
        hit == {r \in memories : MemoryMatches(r, m.project_id, m.topic, m.key)}
    IN IF ~dbUp \/ CastFails(embStr)
       THEN [err |-> TRUE, rows |-> memories, seq |-> memSeq]
       ELSE IF hit # {}
       THEN [err |-> FALSE,
             rows |-> {IF r \in hit
                       THEN [r EXCEPT !.value = m.value,
                                      !.embedding = Coalesce(CastVector(embStr), r.embedding)]
                       ELSE r : r \in memories},
             seq |-> memSeq + 1]
       ELSE IF ~ProjectExists(m.project_id)
       THEN [err |-> TRUE, rows |-> memories, seq |-> memSeq + 1]
       ELSE [err |-> FALSE,
             rows |-> memories \cup
                      {[id |-> memSeq + 1, project_id |-> m.project_id, topic |-> m.topic,
                        key |-> m.key, value |-> m.value,
                        embedding |-> CastVector(embStr)]},
             seq |-> memSeq + 1]

\* SELECT ... FROM memories WHERE project_id=$1 AND topic=$2 AND key=$3
GetMemory(pid, topic, key) == {r \in memories : MemoryMatches(r, pid, topic, key)}

\* SELECT ... FROM memories WHERE project_id=$1 [AND topic=$2]
ListMemories(pid, topic) ==
    {r \in memories : r.project_id = pid /\ (topic # "" => r.topic = topic)}

\* DELETE FROM memories WHERE project_id=$1 AND topic=$2 AND key=$3
DeleteMemory(pid, topic, key, dbUp) ==
    IF ~dbUp THEN [err |-> TRUE, rows |-> memories]
    ELSE [err |-> FALSE, rows |-> {r \in memories : ~MemoryMatches(r, pid, topic, key)}]

\* INSERT INTO sessions ... ON CONFLICT (project_id, session_num) DO UPDATE
\* SET title=$3, summary=$4, content=$5, embedding=COALESCE($6::vector, sessions.embedding)
CreateSession(sess, embedding, dbUp) ==
    LET embStr == EmbStr(embedding)
        hit == {r \in sessions : r.project_id = sess.project_id
                                 /\ r.session_num = sess.session_num}
    IN IF ~dbUp \/ CastFails(embStr)
       THEN [err |-> TRUE, rows |-> sessions, seq |-> sessSeq]
       ELSE IF hit # {}
       THEN [err |-> FALSE,
             rows |-> {IF r \in hit
                       THEN [r EXCEPT !.title = sess.title, !.summary = sess.summary,
                                      !.content = sess.content,
                                      !.embedding = Coalesce(CastVector(embStr), r.embedding)]
                       ELSE r : r \in sessions},
             seq |-> sessSeq + 1]
       ELSE IF ~ProjectExists(sess.project_id)
       THEN [err |-> TRUE, rows |-> sessions, seq |-> sessSeq + 1]
       ELSE [err |-> FALSE,
             rows |-> sessions \cup
                      {[id |-> sessSeq + 1, project_id |-> sess.project_id,
                        session_num |-> sess.session_num, title |-> sess.title,
                        summary |-> sess.summary, content |-> sess.content,
                        embedding |-> CastVector(embStr)]},
             seq |-> sessSeq + 1]

\* SELECT ... FROM sessions WHERE project_id=$1 AND session_num=$2
GetSession(pid, num) == {r \in sessions : r.project_id = pid /\ r.session_num = num}

\* SELECT ... FROM sessions WHERE project_id=$1
ListSessions(pid) == {r \in sessions : r.project_id = pid}

\* IndexFile as a plain INSERT into a table without the UNIQUE constraint.
IndexFilePlainInsert(f, embedding, dbUp) ==
    LET embStr == EmbStr(embedding)
    IN IF ~dbUp \/ CastFails(embStr)
       THEN [err |-> TRUE, rows |-> file_index, seq |-> fileSeq]
       ELSE IF ~ProjectExists(f.project_id)
       THEN [err |-> TRUE, rows |-> file_index, seq |-> fileSeq + 1]
       ELSE [err |-> FALSE,
             rows |-> file_index \cup
                      {[id |-> fileSeq + 1, project_id |-> f.project_id,
                        file_path |-> f.file_path, file_type |-> f.file_type,
                        summary |-> f.summary, embedding |-> CastVector(embStr)]},
             seq |-> fileSeq + 1]

\* INSERT INTO file_index ... ON CONFLICT (project_id, file_path) DO UPDATE
\* SET file_type=$3, symbols=$4, summary=$5, embedding=COALESCE($6::vector, file_index.embedding)
IndexFile(f, embedding, dbUp) ==
    LET embStr == EmbStr(embedding)
        hit == {r \in file_index : r.project_id = f.project_id /\ r.file_path = f.file_path}
    IN IF ~dbUp \/ CastFails(embStr)
       THEN [err |-> TRUE, rows |-> file_index, seq |-> fileSeq]
       ELSE IF hit # {}
       THEN [err |-> FALSE,
             rows |-> {IF r \in hit
                       THEN [r EXCEPT !.file_type = f.file_type, !.summary = f.summary,
                                      !.embedding = Coalesce(CastVector(embStr), r.embedding)]
                       ELSE r : r \in file_index},
             seq |-> fileSeq + 1]
       ELSE IF ~ProjectExists(f.project_id)
       THEN [err |-> TRUE, rows |-> file_index, seq |-> fileSeq + 1]
       ELSE [err |-> FALSE,
             rows |-> file_index \cup
                      {[id |-> fileSeq + 1, project_id |-> f.project_id,
                        file_path |-> f.file_path, file_type |-> f.file_type,
                        summary |-> f.summary, embedding |-> CastVector(embStr)]},
             seq |-> fileSeq + 1]

(***************************************************************************)
(* Entity search executors.  The storage engine's text search and vector   *)
(* distance are functions of the stored text and vector: a text is a list  *)
(* of lexemes, ts_rank counts the occurrences of the query's lexeme, and   *)
(* the distance of two vectors is the distance of their identifiers.       *)
(***************************************************************************)
\* to_tsvector('english', text)
ToTsvector(text) ==
    CASE text = "" -> <<>>
      [] text = "auth" -> <<"auth">>
      [] text = "auth auth" -> <<"auth", "auth">>
      [] text = "auth db auth auth" -> <<"auth", "db", "auth", "auth">>
      [] OTHER -> <<text>>

\* ts_rank(to_tsvector(...), websearch_to_tsquery('english', query)); the lexemes
\* are those of the texts joined with ' '.  0: the row does not match (@@).
TsRank(texts, query) ==
    LET RECURSIVE Count(_, _)
        Count(ws, i) == IF i > Len(ws) THEN 0
                        ELSE (IF ws[i] = query THEN 1 ELSE 0) + Count(ws, i + 1)
        RECURSIVE Join(_, _)
        Join(ts, i) == IF i > Len(ts) THEN <<>> ELSE ToTsvector(ts[i]) \o Join(ts, i + 1)
    IN IF query = "" THEN 0 ELSE Count(Join(texts, 1), 1)

\* embedding <=> $2::vector
Distance(a, b) == IF a.id >= b.id THEN a.id - b.id ELSE b.id - a.id

\* ORDER BY ... LIMIT: the rows by decreasing score, rows of equal score in the
\* order the engine happens to give (by id, ascending or descending).
Precedes(r, q, tieAsc) ==
    \/ r.score > q.score
    \/ r.score = q.score /\ (IF tieAsc THEN r.id <= q.id ELSE r.id >= q.id)

RECURSIVE OrderBy(_, _)
OrderBy(rows, tieAsc) ==
    IF rows = {} THEN <<>>
    ELSE LET first == CHOOSE r \in rows : \A q \in rows : Precedes(r, q, tieAsc)
         IN <<first>> \o OrderBy(rows \ {first}, tieAsc)

Limit(rows, n) == SubSeq(rows, 1, IF Len(rows) < n THEN Len(rows) ELSE n)

DefaultLimit == 10

\* if limit <= 0 { limit = 10 }
EffectiveLimit(limit) == IF limit <= 0 THEN DefaultLimit ELSE limit

\* The similarity query fails when the literal has no element, or when a row's
\* vector has another dimension than the query vector.
SimilarityFails(embedding, candidates) ==
    \/ embedding.dim = 0
    \/ candidates # {} /\ embedding.dim # ColumnDim

\* Strategy selection by the dimension of the vector instead of its presence.
StrategyByDimension(embedding) ==
    IF embedding.tag # "nil" /\ embedding.dim = ColumnDim THEN "similarity" ELSE "keyword"

\* The columns the keyword query of each kind reads.
MemoryTexts(r) == <<r.value>>
SessionTexts(r) == <<r.title, r.summary, r.content>>
FileTexts(r) == <<r.summary>>
KindTexts(kind, r) ==
    CASE kind = "memories" -> MemoryTexts(r)
      [] kind = "sessions" -> SessionTexts(r)
      [] kind = "files" -> FileTexts(r)

\* if embedding != nil { similarity-ranked query } else { keyword-ranked query }
Strategy(embedding) == IF embedding.tag # "nil" THEN "similarity" ELSE "keyword"

\* One executor: the similarity-ranked query if embedding != nil, otherwise the
\* keyword-ranked query, over the project's rows of the kind's table.
Executor(table, kind, projectID, query, embedding, limit, dbUp, tieAsc) ==
    LET mine == {r \in table : r.project_id = projectID}
        withVec == {r \in mine : r.embedding.tag # "null"}
        strategy == Strategy(embedding)
        scored == IF strategy = "similarity"
                  THEN {[row |-> r, id |-> r.id, project_id |-> r.project_id,
                         score |-> 1 - Distance(r.embedding, embedding)] : r \in withVec}
                  ELSE {[row |-> r, id |-> r.id, project_id |-> r.project_id,
                         score |-> TsRank(KindTexts(kind, r), query)] :
                            r \in {x \in mine : TsRank(KindTexts(kind, x), query) > 0}}
    IN IF ~dbUp \/ (strategy = "similarity" /\ SimilarityFails(embedding, withVec))
       THEN [err |-> TRUE, rows |-> <<>>, strategy |-> strategy]
       ELSE [err |-> FALSE, rows |-> Limit(OrderBy(scored, tieAsc), EffectiveLimit(limit)),
             strategy |-> strategy]

SearchMemories(projectID, query, embedding, limit, dbUp, tieAsc) ==
    Executor(memories, "memories", projectID, query, embedding, limit, dbUp, tieAsc)

SearchSessions(projectID, query, embedding, limit, dbUp, tieAsc) ==
    Executor(sessions, "sessions", projectID, query, embedding, limit, dbUp, tieAsc)

SearchFiles(projectID, query, embedding, limit, dbUp, tieAsc) ==
    Executor(file_index, "files", projectID, query, embedding, limit, dbUp, tieAsc)

\* RecordUsage that keeps only the latest row.
RecordUsageLatestOnly(u, projs, dbUp) ==
    IF ~dbUp \/ ~(\E p \in projs : p.id = u.project_id)
    THEN [err |-> TRUE, rows |-> usage_stats]
    ELSE [err |-> FALSE, rows |-> <<u>>]

\* INSERT INTO usage_stats (project_id, tool_name, ...): project_id references
\* projects(id); the Go string is never NULL.
\* projs: the projects table at the time of the statement.
RecordUsage(u, projs, dbUp) ==
    IF ~dbUp \/ ~(\E p \in projs : p.id = u.project_id)
    THEN [err |-> TRUE, rows |-> usage_stats]
    ELSE [err |-> FALSE, rows |-> Append(usage_stats, u)]

(***************************************************************************)
(* SpecStore: the Store API called directly, as the MCP handlers, the web  *)
(* handlers and the backfill command call it.                              *)
(***************************************************************************)
NoOp == [op |-> "none", pid |-> "", nkey |-> <<>>, payload |-> <<>>, vec |-> NilVector,
         err |-> FALSE, same |-> FALSE]

\* The record of an operation; same: the operation before it was the same call
\* (same arguments) and succeeded.
OpRecord(op, pid, nkey, payload, vec, err) ==
    [op |-> op, pid |-> pid, nkey |-> nkey, payload |-> payload, vec |-> vec, err |-> err,
     same |-> (~last.err /\ last.op = op /\ last.pid = pid /\ last.nkey = nkey
               /\ last.payload = payload /\ last.vec = vec)]

NoCall == [tool |-> "none", pid |-> "", isError |-> FALSE, text |-> "", count |-> 0,
           log |-> <<>>, strategy |-> "none", usageUp |-> TRUE,
           badArgs |-> FALSE, recorded |-> 0]

\* The database after the migrations: every table empty.
EmptyStore ==
    /\ projects = {}
    /\ memories = {}
    /\ sessions = {}
    /\ file_index = {}
    /\ usage_stats = <<>>
    /\ memSeq = 0
    /\ sessSeq = 0
    /\ fileSeq = 0

\* The parts a specification does not use.
EmbedIdle == httpRequests = 0 /\ lastEmbed = NoEmbed
McpIdle == eventsWired = FALSE /\ published = 0 /\ okCalls = 0 /\ lastCall = NoCall

NoSearch == [op |-> "none", query |-> "", embedding |-> NilVector, limit |-> 0,
             err |-> FALSE, order |-> <<>>, execs |-> <<>>, log |-> <<>>,
             memories |-> <<>>, sessions |-> <<>>, files |-> <<>>]
SearchIdle == saCall = NoSearch

Subscribers == {"s1", "s2"}
Publishers == {"h1", "h2"}

\* NewEventBus(): no client; no Subscribe and no Publish has been called.
BusIdle ==
    /\ clients = {}
    /\ inbox = [s \in Subscribers |-> <<>>]
    /\ subPc = [s \in Subscribers |-> "new"]
    /\ pubPc = [p \in Publishers |-> "idle"]
    /\ pubTodo = [p \in Publishers |-> {}]
    /\ pubSkipped = [p \in Publishers |-> {}]

\* ds := &DashboardStats{}
ZeroStats == [ProjectCount |-> 0, MemoryCount |-> 0, SessionCount |-> 0, FileCount |-> 0,
              TotalQueries |-> 0, TotalTokensSaved |-> 0,
              QueriesLast24h |-> 0, TokensLast24h |-> 0, Projects |-> <<>>]
NoDash == [pc |-> "idle", ds |-> ZeroStats, todo |-> <<>>, err |-> FALSE]
DashIdle == dash = NoDash /\ aged = 0

\* No dashboard request in progress.
NoUpdate == [pc |-> "idle", id |-> 0, value |-> "", mem |-> <<>>, status |-> 0,
             atWrite |-> {}, written |-> ""]
\* The processes that may run RunMigrations against the database.
Migrators == {"m1", "m2"}

\* No RunMigrations call so far: no schema_migrations row, nothing executed.
NoMigration == [versions |-> {}, executed |-> <<>>,
                pc |-> [m \in Migrators |-> [step |-> "idle", at |-> 0]], runs |-> 0]
\* The backfill command not started, over a project root without transcripts.
NoBackfill == [pc |-> "idle", transcripts |-> <<>>, phases |-> <<>>, i |-> 0,
               sessionNum |-> 0, count |-> 0, total |-> 0, loaded |-> <<>>]
ProcIdle == upd = NoUpdate /\ mode = "component" /\ mig = NoMigration /\ bf = NoBackfill

StoreInit ==
    /\ EmptyStore
    /\ ops = 0
    /\ last = NoOp
    /\ embCfg = New("", ColumnDim)
    /\ EmbedIdle
    /\ McpIdle
    /\ SearchIdle
    /\ BusIdle
    /\ DashIdle
    /\ ProcIdle

StoreCreateProject ==
    /\ ops < MaxOps
    /\ \E pid \in ProjectIDs, dbUp \in BOOLEAN :
         LET res == CreateProject([id |-> pid, name |-> pid], dbUp)
         IN /\ projects' = res.rows
            /\ last' = OpRecord("CreateProject", pid, <<>>, <<pid>>, NilVector, res.err)
    /\ ops' = ops + 1
    /\ UNCHANGED <<memories, sessions, file_index, usage_stats, memSeq, sessSeq, fileSeq, embedVars, mcpVars,
                   searchVars, busVars, dashVars, procVars>>

StoreSetMemory ==
    /\ ops < MaxOps
    /\ \E pid \in ProjectIDs, topic \in Topics, key \in Keys, value \in Values,
          v \in Vectors, dbUp \in BOOLEAN :
         LET res == SetMemory([project_id |-> pid, topic |-> topic, key |-> key,
                               value |-> value], v, dbUp)
         IN /\ memories' = res.rows
            /\ memSeq' = res.seq
            /\ last' = OpRecord("SetMemory", pid, <<topic, key>>, <<value>>, v, res.err)
    /\ ops' = ops + 1
    /\ UNCHANGED <<projects, sessions, file_index, usage_stats, sessSeq, fileSeq, embedVars, mcpVars,
                   searchVars, busVars, dashVars, procVars>>

StoreDeleteMemory ==
    /\ ops < MaxOps
    /\ \E pid \in ProjectIDs, topic \in Topics, key \in Keys, dbUp \in BOOLEAN :
         LET res == DeleteMemory(pid, topic, key, dbUp)
         IN /\ memories' = res.rows
            /\ last' = OpRecord("DeleteMemory", pid, <<topic, key>>, <<>>, NilVector, res.err)
    /\ ops' = ops + 1
    /\ UNCHANGED <<projects, sessions, file_index, usage_stats, memSeq, sessSeq, fileSeq, embedVars, mcpVars,
                   searchVars, busVars, dashVars, procVars>>

StoreCreateSession ==
    /\ ops < MaxOps
    /\ \E pid \in ProjectIDs, num \in SessionNums, title \in Titles, summary \in Summaries,
          content \in Contents, v \in Vectors, dbUp \in BOOLEAN :
         LET res == CreateSession([project_id |-> pid, session_num |-> num,
                                   title |-> title, summary |-> summary,
                                   content |-> content], v, dbUp)
         IN /\ sessions' = res.rows
            /\ sessSeq' = res.seq
            /\ last' = OpRecord("CreateSession", pid, <<num>>, <<title, summary, content>>, v, res.err)
    /\ ops' = ops + 1
    /\ UNCHANGED <<projects, memories, file_index, usage_stats, memSeq, fileSeq, embedVars, mcpVars,
                   searchVars, busVars, dashVars, procVars>>

StoreIndexFile ==
    /\ ops < MaxOps
    /\ \E pid \in ProjectIDs, path \in FilePaths, ftype \in FileTypes, summary \in Summaries,
          v \in Vectors, dbUp \in BOOLEAN :
         LET res == IndexFile([project_id |-> pid, file_path |-> path,
                               file_type |-> ftype, summary |-> summary], v, dbUp)
         IN /\ file_index' = res.rows
            /\ fileSeq' = res.seq
            /\ last' = OpRecord("IndexFile", pid, <<path>>, <<ftype, summary>>, v, res.err)
    /\ ops' = ops + 1
    /\ UNCHANGED <<projects, memories, sessions, usage_stats, memSeq, sessSeq, embedVars, mcpVars,
                   searchVars, busVars, dashVars, procVars>>

StoreNext ==
    \/ StoreCreateProject
    \/ StoreSetMemory
    \/ StoreDeleteMemory
    \/ StoreCreateSession
    \/ StoreIndexFile

SpecStore == StoreInit /\ [][StoreNext]_vars

\* The stored vector of each natural key, per kind.
SameMemoryKey(r, q) == r.project_id = q.project_id /\ r.topic = q.topic /\ r.key = q.key
SameSessionKey(r, q) == r.project_id = q.project_id /\ r.session_num = q.session_num
SameFileKey(r, q) == r.project_id = q.project_id /\ r.file_path = q.file_path

\* The step is a successful upsert of the given kind on the row's key, with a vector.
UpsertWithVector(op, pid, nkey) ==
    /\ last'.op = op /\ ~last'.err
    /\ last'.pid = pid /\ last'.nkey = nkey
    /\ last'.vec.tag # "nil"

\* C5: for each of the three kinds, in every step the stored vector of a natural
\* key that has a row before and after the step changes only if the step is an
\* upsert of that key carrying a non-absent vector; so an upsert with an absent
\* vector leaves a stored vector as it is.
C5_AbsentVectorKeepsStored ==
    [][ /\ \A r \in memories : \A q \in memories' :
             (SameMemoryKey(r, q) /\ q.embedding # r.embedding)
                => UpsertWithVector("SetMemory", r.project_id, <<r.topic, r.key>>)
        /\ \A r \in sessions : \A q \in sessions' :
             (SameSessionKey(r, q) /\ q.embedding # r.embedding)
                => UpsertWithVector("CreateSession", r.project_id, <<r.session_num>>)
        /\ \A r \in file_index : \A q \in file_index' :
             (SameFileKey(r, q) /\ q.embedding # r.embedding)
                => UpsertWithVector("IndexFile", r.project_id, <<r.file_path>>)
      ]_vars

\* C5 witness: an upsert of a note with an absent vector has succeeded on a key
\* whose row holds a vector.
C5_Witness ==
    /\ last.op = "SetMemory" /\ ~last.err /\ last.vec.tag = "nil"
    /\ \E r \in memories : /\ r.project_id = last.pid
                            /\ <<r.topic, r.key>> = last.nkey
                            /\ r.embedding.tag = "vector"

\* At most one row per tenant and natural key, in each table.
UniqueKeys ==
    /\ \A r, q \in memories : SameMemoryKey(r, q) => r = q
    /\ \A r, q \in sessions : SameSessionKey(r, q) => r = q
    /\ \A r, q \in file_index : SameFileKey(r, q) => r = q
    /\ \A r, q \in projects : r.id = q.id => r = q

\* C6: an upsert that repeats the successful upsert before it (same tenant, key,
\* payload and vector argument) leaves every table as it was, and after every
\* step each table holds at most one row per tenant and natural key.
C6_UpsertIdempotent ==
    [][ /\ UniqueKeys'
        /\ (last'.same /\ last'.op \in {"SetMemory", "CreateSession", "IndexFile"})
              => (memories' = memories /\ sessions' = sessions /\ file_index' = file_index)
      ]_vars

\* C6 witness: an upsert of a file, with a vector, has been applied twice in a row.
C6_Witness ==
    /\ last.op = "IndexFile" /\ last.same /\ ~last.err /\ last.vec.tag # "nil"
    /\ \E r \in file_index : r.project_id = last.pid /\ <<r.file_path>> = last.nkey

(***************************************************************************)
(* SpecTenants: the Store API on a database where two tenants are          *)
(* registered, so that both can hold items under the same natural keys.    *)
(***************************************************************************)
TenantsInit ==
    /\ projects = {[id |-> pid, name |-> pid] : pid \in ProjectIDs}
    /\ memories = {} /\ sessions = {} /\ file_index = {}
    /\ memSeq = 0 /\ sessSeq = 0 /\ fileSeq = 0
    /\ usage_stats = <<>>
    /\ ops = 0
    /\ last = NoOp
    /\ embCfg = New("", ColumnDim)
    /\ EmbedIdle
    /\ McpIdle
    /\ SearchIdle
    /\ BusIdle
    /\ DashIdle
    /\ ProcIdle

SpecTenants == TenantsInit /\ [][StoreNext]_vars

\* The rows a sequence of search results carries.
ResultTenants(res) == {res.rows[i].project_id : i \in DOMAIN res.rows}

\* Every item a single-tenant get, list or search returns carries the tenant id
\* it was called with.
ReadsScoped ==
    \A pid \in ProjectIDs :
        /\ \A topic \in Topics \cup {""}, key \in Keys :
              /\ \A r \in GetMemory(pid, topic, key) : r.project_id = pid
              /\ \A r \in ListMemories(pid, topic) : r.project_id = pid
        /\ \A num \in SessionNums : \A r \in GetSession(pid, num) : r.project_id = pid
        /\ \A r \in ListSessions(pid) : r.project_id = pid
        /\ \A query \in Values, embedding \in {NilVector, Vec(ColumnDim, 1)}, tieAsc \in BOOLEAN :
              /\ ResultTenants(SearchMemories(pid, query, embedding, 0, TRUE, tieAsc)) \subseteq {pid}
              /\ ResultTenants(SearchSessions(pid, query, embedding, 0, TRUE, tieAsc)) \subseteq {pid}
              /\ ResultTenants(SearchFiles(pid, query, embedding, 0, TRUE, tieAsc)) \subseteq {pid}

\* The content items of the tenants other than pid.
OthersContent(pid, mems, sess, files) ==
    <<{r \in mems : r.project_id # pid}, {r \in sess : r.project_id # pid},
      {r \in files : r.project_id # pid}>>

\* C18: tenant isolation.  Every item returned by a single-tenant search, list
\* or exact get carries the requested tenant id, and an upsert or delete issued
\* for a tenant leaves the content items of every other tenant unchanged.
C18_TenantIsolation ==
    /\ []ReadsScoped
    /\ [][OthersContent(last'.pid, memories', sessions', file_index')
            = OthersContent(last'.pid, memories, sessions, file_index)]_vars

\* Both tenants hold a memory under the same topic and key, with different
\* values, and the last operation was a successful upsert for one of them.
C18_Witness ==
    /\ \E a \in memories, b \in memories :
          /\ a.project_id = "p1" /\ b.project_id = "p2"
          /\ a.topic = b.topic /\ a.key = b.key /\ a.value # b.value
    /\ last.op = "SetMemory" /\ ~last.err /\ last.pid = "p1"

(***************************************************************************)
(* SpecEmbed: one embedding service, configured at start-up, and calls of  *)
(* Embed with every text and every outcome of the exchange.                *)
(***************************************************************************)
EmbedInit ==
    /\ EmptyStore
    /\ ops = 0
    /\ last = NoOp
    /\ embCfg \in {New(u, d) : u \in EmbeddingURLs, d \in EmbeddingDims}
    /\ EmbedIdle
    /\ McpIdle
    /\ SearchIdle
    /\ BusIdle
    /\ DashIdle
    /\ ProcIdle

EmbedCall ==
    /\ httpRequests < MaxEmbedCalls
    /\ \E text \in Texts, resp \in Responses :
         /\ lastEmbed' = [text |-> text, resp |-> resp, result |-> Embed(embCfg, text, resp),
                          called |-> TRUE, sent |-> EmbedSendsRequest(embCfg, text)]
         /\ httpRequests' = IF EmbedSendsRequest(embCfg, text)
                            THEN httpRequests + 1 ELSE httpRequests
    /\ UNCHANGED <<storeVars, ops, last, embCfg, mcpVars, searchVars, busVars, dashVars, procVars>>

EmbedNext == EmbedCall

SpecEmbed == EmbedInit /\ [][EmbedNext]_vars

\* C10: Embed returns absent when the service is disabled, when the text is empty
\* (and then sends no request), on a transport failure, on a status other than
\* 200, on a malformed body and on a vector of another length than the configured
\* dimension; a vector it returns has the configured dimension.
C10_EmbedTotal ==
    lastEmbed.called =>
        /\ lastEmbed.result.tag \in {"nil", "vec"}
        /\ (~Enabled(embCfg) => lastEmbed.result = NilVector)
        /\ (lastEmbed.text = "" => (lastEmbed.result = NilVector /\ ~lastEmbed.sent))
        /\ (~lastEmbed.resp.transport => lastEmbed.result = NilVector)
        /\ (lastEmbed.resp.status # StatusOK => lastEmbed.result = NilVector)
        /\ (~lastEmbed.resp.body.json => lastEmbed.result = NilVector)
        /\ (lastEmbed.resp.body.embedding.dim # embCfg.dim => lastEmbed.result = NilVector)
        /\ (lastEmbed.result.tag # "nil" => lastEmbed.result.dim = embCfg.dim)
        /\ (~lastEmbed.sent => lastEmbed.result = NilVector)

\* C10 witness: the service answered 200 with a well-formed vector of another
\* length than the configured dimension, and Embed returned absent.
C10_Witness ==
    /\ lastEmbed.called /\ lastEmbed.sent
    /\ lastEmbed.resp.transport /\ lastEmbed.resp.status = StatusOK
    /\ lastEmbed.resp.body.json
    /\ lastEmbed.resp.body.embedding.tag = "vec"
    /\ lastEmbed.resp.body.embedding.dim # embCfg.dim
    /\ lastEmbed.result = NilVector

(***************************************************************************)
(* Spec: the MCP server.  One action per tool handler; a handler's store   *)
(* calls, its Embed call and its recordUsage are part of the action.       *)
(***************************************************************************)
\* Tool arguments as stringArg returns them: "" when the argument is missing.
ArgProjectIDs == {"", "p1"}
ArgNames == {"", "demo"}
ArgTopics == Topics \cup {""}
ArgKeys == Keys \cup {""}
ArgValues == Values \cup {""}
ArgQueries == {"", "auth"}
ArgTitles == {"", "kickoff"}
ArgSessionNums == {"", "1", "0", "-1", "abc"}
ArgLimits == {"", "1", "0", "abc"}

\* The exchanges with the embedding service the handlers are checked with.
HandlerResponses ==
    {r \in Responses :
        \/ ~r.transport
        \/ r.status = StatusOK /\ r.body.json
           /\ r.body.embedding \in {Vec(ColumnDim, 1), Vec(ColumnDim, 2)}}

\* Whether the handler's own query and then the usage_stats INSERT can execute:
\* the INSERT runs after the query, so it can fail on its own, and it is not
\* reached when the query failed.
DbOutcomes == {<<TRUE, TRUE>>, <<TRUE, FALSE>>, <<FALSE, FALSE>>}

\* strconv.Atoi
Atoi(v) ==
    CASE v = "1" -> [ok |-> TRUE, n |-> 1]
      [] v = "0" -> [ok |-> TRUE, n |-> 0]
      [] v = "-1" -> [ok |-> TRUE, n |-> -1]
      [] OTHER -> [ok |-> FALSE, n |-> 0]

\* An argument the tool's schema marks mcpsdk.Required() is absent or empty
\* (stringArg gives "" for both).
Missing(required) == \E i \in DOMAIN required : required[i] = ""

\* A numeric argument that strconv.Atoi does not accept.
Malformed(v) == v # "" /\ ~Atoi(v).ok

\* intArg(req, name, defaultVal), v being stringArg(req, name)
intArg(v, defaultVal) ==
    IF v = "" THEN defaultVal
    ELSE IF ~Atoi(v).ok THEN defaultVal
    ELSE Atoi(v).n

\* tokenEstimate with a flat rate per tool, whatever the number of results.
tokenEstimateFlat(toolName, resultsCount) ==
    CASE toolName = "memory_search" -> 500
      [] toolName = "session_search" -> 2000
      [] toolName = "file_search" -> 800
      [] OTHER -> 100

\* tokenEstimate(toolName, resultsCount)
tokenEstimate(toolName, resultsCount) ==
    CASE toolName = "memory_search" -> resultsCount * 500
      [] toolName = "session_search" -> resultsCount * 2000
      [] toolName = "file_search" -> resultsCount * 800
      [] OTHER -> 100

\* recordUsage: persist the accounting record (a failure is only logged), then
\* publish "dashboard-stats" if a publisher is wired.
recordUsage(toolName, projectID, query, resultsCount, projs, usageUp) ==
    /\ usage_stats' = RecordUsage([project_id |-> projectID, tool_name |-> toolName,
                                   query_text |-> query, results_count |-> resultsCount,
                                   tokens_estimated |-> tokenEstimate(toolName, resultsCount)],
                                  projs, usageUp).rows
    /\ published' = IF eventsWired THEN published + 1 ELSE published

\* A handler path that returns before recordUsage.
NoUsage == UNCHANGED <<usage_stats, published>>

\* The collaborator calls recordUsage makes.
UsageLog == <<"RecordUsage">> \o (IF eventsWired THEN <<"Publish">> ELSE <<>>)

\* A handler that turns a failed RecordUsage into an error result.
ReturnUsageError(usageUp, badArgs, tool, pid, isError, text, count, log, strategy) ==
    LET failed == ~usageUp /\ \E i \in DOMAIN log : log[i] = "RecordUsage"
    IN /\ lastCall' = [tool |-> tool, pid |-> pid, isError |-> (isError \/ failed),
                       text |-> IF failed THEN "record usage" ELSE text,
                       count |-> count, log |-> log, strategy |-> strategy,
                       usageUp |-> usageUp, badArgs |-> badArgs,
                       recorded |-> Len(usage_stats') - Len(usage_stats)]
       /\ okCalls' = IF isError \/ failed THEN okCalls ELSE okCalls + 1
       /\ ops' = ops + 1

\* The handler returns: NewToolResultError (isError) or NewToolResultText.
Return(usageUp, badArgs, tool, pid, isError, text, count, log, strategy) ==
    /\ lastCall' = [tool |-> tool, pid |-> pid, isError |-> isError, text |-> text,
                    count |-> count, log |-> log, strategy |-> strategy,
                    usageUp |-> usageUp, badArgs |-> badArgs,
                    recorded |-> Len(usage_stats') - Len(usage_stats)]
    /\ okCalls' = IF isError THEN okCalls ELSE okCalls + 1
    /\ ops' = ops + 1

HandleProjectRegister ==
    /\ ops < MaxOps
    /\ \E id \in ArgProjectIDs, name \in ArgNames, <<dbUp, usageUp>> \in DbOutcomes :
         LET res == CreateProject([id |-> id, name |-> name], dbUp)
         IN IF id = "" \/ name = ""
            THEN /\ UNCHANGED projects /\ NoUsage
                 /\ Return(usageUp, Missing(<<id, name>>), "project_register", id, TRUE, "id and name are required", 0,
                           <<>>, "none")
            ELSE IF res.err
            THEN /\ UNCHANGED projects /\ NoUsage
                 /\ Return(usageUp, Missing(<<id, name>>), "project_register", id, TRUE, "create project", 0,
                           <<"CreateProject">>, "none")
            ELSE /\ projects' = res.rows
                 /\ recordUsage("project_register", id, "", 1, res.rows, usageUp)
                 /\ Return(usageUp, Missing(<<id, name>>), "project_register", id, FALSE, "registered", 1,
                           <<"CreateProject">> \o UsageLog, "none")
    /\ UNCHANGED <<memories, sessions, file_index, memSeq, sessSeq, fileSeq, last,
                   embedVars, eventsWired, searchVars, busVars, dashVars, procVars>>

HandleProjectList ==
    /\ ops < MaxOps
    /\ \E <<dbUp, usageUp>> \in DbOutcomes :
         IF ~dbUp
         THEN /\ NoUsage
              /\ Return(usageUp, FALSE, "project_list", "", TRUE, "list projects", 0, <<"ListProjects">>, "none")
         ELSE /\ recordUsage("project_list", "", "", Cardinality(ListProjects), projects, usageUp)
              /\ Return(usageUp, FALSE, "project_list", "", FALSE, "projects", Cardinality(ListProjects),
                        <<"ListProjects">> \o UsageLog, "none")
    /\ UNCHANGED <<projects, memories, sessions, file_index, memSeq, sessSeq, fileSeq, last,
                   embedVars, eventsWired, searchVars, busVars, dashVars, procVars>>

HandleProjectStatus ==
    /\ ops < MaxOps
    /\ \E projectID \in ArgProjectIDs, <<dbUp, usageUp>> \in DbOutcomes :
         IF projectID = ""
         THEN /\ NoUsage
              /\ Return(usageUp, Missing(<<projectID>>), "project_status", projectID, TRUE, "project_id is required", 0,
                        <<>>, "none")
         ELSE IF ~dbUp
         THEN /\ NoUsage
              /\ Return(usageUp, Missing(<<projectID>>), "project_status", projectID, TRUE, "get project", 0,
                        <<"GetProject">>, "none")
         ELSE IF ~ProjectExists(projectID)
         THEN /\ NoUsage
              /\ Return(usageUp, Missing(<<projectID>>), "project_status", projectID, TRUE, "project not found", 0,
                        <<"GetProject">>, "none")
         ELSE /\ recordUsage("project_status", projectID, "", 1, projects, usageUp)
              /\ Return(usageUp, Missing(<<projectID>>), "project_status", projectID, FALSE, "status", 1,
                        <<"GetProject", "ListMemories", "ListSessions">> \o UsageLog, "none")
    /\ UNCHANGED <<projects, memories, sessions, file_index, memSeq, sessSeq, fileSeq, last,
                   embedVars, eventsWired, searchVars, busVars, dashVars, procVars>>

HandleMemorySet ==
    /\ ops < MaxOps
    /\ \E projectID \in ArgProjectIDs, topic \in ArgTopics, key \in ArgKeys,
          value \in ArgValues, resp \in HandlerResponses,
          <<dbUp, usageUp>> \in DbOutcomes :
         LET emb == Embed(embCfg, value, resp)
             res == SetMemory([project_id |-> projectID, topic |-> topic, key |-> key,
                               value |-> value], emb, dbUp)
         IN IF projectID = "" \/ topic = "" \/ key = "" \/ value = ""
            THEN /\ UNCHANGED <<memories, memSeq>> /\ NoUsage
                 /\ Return(usageUp, Missing(<<projectID, topic, key, value>>), "memory_set", projectID, TRUE,
                           "project_id, topic, key, and value are required", 0, <<>>, "none")
            ELSE IF res.err
            THEN /\ memories' = res.rows /\ memSeq' = res.seq /\ NoUsage
                 /\ Return(usageUp, Missing(<<projectID, topic, key, value>>), "memory_set", projectID, TRUE, "set memory", 0,
                           <<"Embed", "SetMemory">>, "none")
            ELSE /\ memories' = res.rows /\ memSeq' = res.seq
                 /\ recordUsage("memory_set", projectID, topic \o "/" \o key, 1,
                                projects, usageUp)
                 /\ Return(usageUp, Missing(<<projectID, topic, key, value>>), "memory_set", projectID, FALSE, "Memory set", 1,
                           <<"Embed", "SetMemory">> \o UsageLog, "none")
    /\ UNCHANGED <<projects, sessions, file_index, sessSeq, fileSeq, last,
                   embedVars, eventsWired, searchVars, busVars, dashVars, procVars>>

HandleMemoryGet ==
    /\ ops < MaxOps
    /\ \E projectID \in ArgProjectIDs, topic \in ArgTopics, key \in ArgKeys,
          <<dbUp, usageUp>> \in DbOutcomes :
         IF ~dbUp
         THEN /\ NoUsage
              /\ Return(usageUp, Missing(<<projectID, topic, key>>), "memory_get", projectID, TRUE, "get memory", 0, <<"GetMemory">>, "none")
         ELSE IF GetMemory(projectID, topic, key) = {}
         THEN /\ NoUsage
              /\ Return(usageUp, Missing(<<projectID, topic, key>>), "memory_get", projectID, FALSE, "not found", 0, <<"GetMemory">>, "none")
         ELSE /\ recordUsage("memory_get", projectID, topic \o "/" \o key, 1, projects, usageUp)
              /\ Return(usageUp, Missing(<<projectID, topic, key>>), "memory_get", projectID, FALSE, "memory", 1,
                        <<"GetMemory">> \o UsageLog, "none")
    /\ UNCHANGED <<projects, memories, sessions, file_index, memSeq, sessSeq, fileSeq, last,
                   embedVars, eventsWired, searchVars, busVars, dashVars, procVars>>

HandleMemoryList ==
    /\ ops < MaxOps
    /\ \E projectID \in ArgProjectIDs, topic \in ArgTopics,
          <<dbUp, usageUp>> \in DbOutcomes :
         IF ~dbUp
         THEN /\ NoUsage
              /\ Return(usageUp, Missing(<<projectID>>), "memory_list", projectID, TRUE, "list memories", 0,
                        <<"ListMemories">>, "none")
         ELSE /\ recordUsage("memory_list", projectID, topic,
                             Cardinality(ListMemories(projectID, topic)), projects, usageUp)
              /\ Return(usageUp, Missing(<<projectID>>), "memory_list", projectID, FALSE, "memories",
                        Cardinality(ListMemories(projectID, topic)),
                        <<"ListMemories">> \o UsageLog, "none")
    /\ UNCHANGED <<projects, memories, sessions, file_index, memSeq, sessSeq, fileSeq, last,
                   embedVars, eventsWired, searchVars, busVars, dashVars, procVars>>

HandleMemorySearch ==
    /\ ops < MaxOps
    /\ \E projectID \in ArgProjectIDs, query \in ArgQueries, limitArg \in ArgLimits,
          resp \in HandlerResponses, tieAsc \in BOOLEAN,
          <<dbUp, usageUp>> \in DbOutcomes :
         LET limit == intArg(limitArg, DefaultLimit)
             emb == Embed(embCfg, query, resp)
             res == SearchMemories(projectID, query, emb, limit, dbUp, tieAsc)
         IN IF projectID = "" \/ query = ""
            THEN /\ NoUsage
                 /\ Return(usageUp, Missing(<<projectID, query>>) \/ Malformed(limitArg), "memory_search", projectID, TRUE,
                           "project_id and query are required", 0, <<>>, "none")
            ELSE IF res.err
            THEN /\ NoUsage
                 /\ Return(usageUp, Missing(<<projectID, query>>) \/ Malformed(limitArg), "memory_search", projectID, TRUE, "search memories", 0,
                           <<"Embed", "SearchMemories">>, res.strategy)
            ELSE /\ recordUsage("memory_search", projectID, query, Len(res.rows),
                                projects, usageUp)
                 /\ Return(usageUp, Missing(<<projectID, query>>) \/ Malformed(limitArg), "memory_search", projectID, FALSE, "results", Len(res.rows),
                           <<"Embed", "SearchMemories">> \o UsageLog, res.strategy)
    /\ UNCHANGED <<projects, memories, sessions, file_index, memSeq, sessSeq, fileSeq, last,
                   embedVars, eventsWired, searchVars, busVars, dashVars, procVars>>

HandleMemoryDelete ==
    /\ ops < MaxOps
    /\ \E projectID \in ArgProjectIDs, topic \in ArgTopics, key \in ArgKeys,
          <<dbUp, usageUp>> \in DbOutcomes :
         LET res == DeleteMemory(projectID, topic, key, dbUp)
         IN IF res.err
            THEN /\ UNCHANGED memories /\ NoUsage
                 /\ Return(usageUp, Missing(<<projectID, topic, key>>), "memory_delete", projectID, TRUE, "delete memory", 0,
                           <<"DeleteMemory">>, "none")
            ELSE /\ memories' = res.rows
                 /\ recordUsage("memory_delete", projectID, topic \o "/" \o key, 0,
                                projects, usageUp)
                 /\ Return(usageUp, Missing(<<projectID, topic, key>>), "memory_delete", projectID, FALSE, "Deleted", 0,
                           <<"DeleteMemory">> \o UsageLog, "none")
    /\ UNCHANGED <<projects, sessions, file_index, memSeq, sessSeq, fileSeq, last,
                   embedVars, eventsWired, searchVars, busVars, dashVars, procVars>>

HandleSessionCreate ==
    /\ ops < MaxOps
    /\ \E projectID \in ArgProjectIDs, numArg \in ArgSessionNums, title \in ArgTitles,
          summary \in Summaries, content \in Contents, resp \in HandlerResponses,
          <<dbUp, usageUp>> \in DbOutcomes :
         LET sessionNum == intArg(numArg, 0)
             embText == IF summary = "" THEN title ELSE summary
             emb == Embed(embCfg, embText, resp)
             res == CreateSession([project_id |-> projectID, session_num |-> sessionNum,
                                   title |-> title, summary |-> summary,
                                   content |-> content], emb, dbUp)
         IN IF projectID = "" \/ sessionNum = 0 \/ title = ""
            THEN /\ UNCHANGED <<sessions, sessSeq>> /\ NoUsage
                 /\ Return(usageUp, Missing(<<projectID, numArg, title>>) \/ Malformed(numArg), "session_create", projectID, TRUE,
                           "project_id, session_num, and title are required", 0, <<>>, "none")
            ELSE IF res.err
            THEN /\ sessions' = res.rows /\ sessSeq' = res.seq /\ NoUsage
                 /\ Return(usageUp, Missing(<<projectID, numArg, title>>) \/ Malformed(numArg), "session_create", projectID, TRUE, "create session", 0,
                           <<"Embed", "CreateSession">>, "none")
            ELSE /\ sessions' = res.rows /\ sessSeq' = res.seq
                 /\ recordUsage("session_create", projectID, title, 1, projects, usageUp)
                 /\ Return(usageUp, Missing(<<projectID, numArg, title>>) \/ Malformed(numArg), "session_create", projectID, FALSE, "Session created", 1,
                           <<"Embed", "CreateSession">> \o UsageLog, "none")
    /\ UNCHANGED <<projects, memories, file_index, memSeq, fileSeq, last,
                   embedVars, eventsWired, searchVars, busVars, dashVars, procVars>>

HandleSessionGet ==
    /\ ops < MaxOps
    /\ \E projectID \in ArgProjectIDs, numArg \in ArgSessionNums,
          <<dbUp, usageUp>> \in DbOutcomes :
         LET sessionNum == intArg(numArg, 0)
         IN IF ~dbUp
            THEN /\ NoUsage
                 /\ Return(usageUp, Missing(<<projectID, numArg>>) \/ Malformed(numArg), "session_get", projectID, TRUE, "get session", 0,
                           <<"GetSession">>, "none")
            ELSE IF GetSession(projectID, sessionNum) = {}
            THEN /\ NoUsage
                 /\ Return(usageUp, Missing(<<projectID, numArg>>) \/ Malformed(numArg), "session_get", projectID, FALSE, "not found", 0,
                           <<"GetSession">>, "none")
            ELSE /\ recordUsage("session_get", projectID, "", 1, projects, usageUp)
                 /\ Return(usageUp, Missing(<<projectID, numArg>>) \/ Malformed(numArg), "session_get", projectID, FALSE, "session", 1,
                           <<"GetSession">> \o UsageLog, "none")
    /\ UNCHANGED <<projects, memories, sessions, file_index, memSeq, sessSeq, fileSeq, last,
                   embedVars, eventsWired, searchVars, busVars, dashVars, procVars>>

HandleSessionList ==
    /\ ops < MaxOps
    /\ \E projectID \in ArgProjectIDs, <<dbUp, usageUp>> \in DbOutcomes :
         IF ~dbUp
         THEN /\ NoUsage
              /\ Return(usageUp, Missing(<<projectID>>), "session_list", projectID, TRUE, "list sessions", 0,
                        <<"ListSessions">>, "none")
         ELSE /\ recordUsage("session_list", projectID, "",
                             Cardinality(ListSessions(projectID)), projects, usageUp)
              /\ Return(usageUp, Missing(<<projectID>>), "session_list", projectID, FALSE, "sessions",
                        Cardinality(ListSessions(projectID)),
                        <<"ListSessions">> \o UsageLog, "none")
    /\ UNCHANGED <<projects, memories, sessions, file_index, memSeq, sessSeq, fileSeq, last,
                   embedVars, eventsWired, searchVars, busVars, dashVars, procVars>>

HandleSessionSearch ==
    /\ ops < MaxOps
    /\ \E projectID \in ArgProjectIDs, query \in ArgQueries, limitArg \in ArgLimits,
          resp \in HandlerResponses, tieAsc \in BOOLEAN,
          <<dbUp, usageUp>> \in DbOutcomes :
         LET limit == intArg(limitArg, DefaultLimit)
             emb == Embed(embCfg, query, resp)
             res == SearchSessions(projectID, query, emb, limit, dbUp, tieAsc)
         IN IF projectID = "" \/ query = ""
            THEN /\ NoUsage
                 /\ Return(usageUp, Missing(<<projectID, query>>) \/ Malformed(limitArg), "session_search", projectID, TRUE,
                           "project_id and query are required", 0, <<>>, "none")
            ELSE IF res.err
            THEN /\ NoUsage
                 /\ Return(usageUp, Missing(<<projectID, query>>) \/ Malformed(limitArg), "session_search", projectID, TRUE, "search sessions", 0,
                           <<"Embed", "SearchSessions">>, res.strategy)
            ELSE /\ recordUsage("session_search", projectID, query, Len(res.rows),
                                projects, usageUp)
                 /\ Return(usageUp, Missing(<<projectID, query>>) \/ Malformed(limitArg), "session_search", projectID, FALSE, "results", Len(res.rows),
                           <<"Embed", "SearchSessions">> \o UsageLog, res.strategy)
    /\ UNCHANGED <<projects, memories, sessions, file_index, memSeq, sessSeq, fileSeq, last,
                   embedVars, eventsWired, searchVars, busVars, dashVars, procVars>>

HandleFileIndex ==
    /\ ops < MaxOps
    /\ \E projectID \in ArgProjectIDs, filePath \in FilePaths \cup {""},
          fileType \in FileTypes, summary \in Summaries, resp \in HandlerResponses,
          <<dbUp, usageUp>> \in DbOutcomes :
         LET emb == Embed(embCfg, summary, resp)
             res == IndexFile([project_id |-> projectID, file_path |-> filePath,
                               file_type |-> fileType, summary |-> summary], emb, dbUp)
         IN IF projectID = "" \/ filePath = ""
            THEN /\ UNCHANGED <<file_index, fileSeq>> /\ NoUsage
                 /\ Return(usageUp, Missing(<<projectID, filePath>>), "file_index", projectID, TRUE,
                           "project_id and file_path are required", 0, <<>>, "none")
            ELSE IF res.err
            THEN /\ file_index' = res.rows /\ fileSeq' = res.seq /\ NoUsage
                 /\ Return(usageUp, Missing(<<projectID, filePath>>), "file_index", projectID, TRUE, "index file", 0,
                           <<"Embed", "IndexFile">>, "none")
            ELSE /\ file_index' = res.rows /\ fileSeq' = res.seq
                 /\ recordUsage("file_index", projectID, filePath, 1, projects, usageUp)
                 /\ Return(usageUp, Missing(<<projectID, filePath>>), "file_index", projectID, FALSE, "Indexed", 1,
                           <<"Embed", "IndexFile">> \o UsageLog, "none")
    /\ UNCHANGED <<projects, memories, sessions, memSeq, sessSeq, last,
                   embedVars, eventsWired, searchVars, busVars, dashVars, procVars>>

HandleFileSearch ==
    /\ ops < MaxOps
    /\ \E projectID \in ArgProjectIDs, query \in ArgQueries, limitArg \in ArgLimits,
          resp \in HandlerResponses, tieAsc \in BOOLEAN,
          <<dbUp, usageUp>> \in DbOutcomes :
         LET limit == intArg(limitArg, DefaultLimit)
             emb == Embed(embCfg, query, resp)
             res == SearchFiles(projectID, query, emb, limit, dbUp, tieAsc)
         IN IF projectID = "" \/ query = ""
            THEN /\ NoUsage
                 /\ Return(usageUp, Missing(<<projectID, query>>) \/ Malformed(limitArg), "file_search", projectID, TRUE,
                           "project_id and query are required", 0, <<>>, "none")
            ELSE IF res.err
            THEN /\ NoUsage
                 /\ Return(usageUp, Missing(<<projectID, query>>) \/ Malformed(limitArg), "file_search", projectID, TRUE, "search files", 0,
                           <<"Embed", "SearchFiles">>, res.strategy)
            ELSE /\ recordUsage("file_search", projectID, query, Len(res.rows),
                                projects, usageUp)
                 /\ Return(usageUp, Missing(<<projectID, query>>) \/ Malformed(limitArg), "file_search", projectID, FALSE, "results", Len(res.rows),
                           <<"Embed", "SearchFiles">> \o UsageLog, res.strategy)
    /\ UNCHANGED <<projects, memories, sessions, file_index, memSeq, sessSeq, fileSeq, last,
                   embedVars, eventsWired, searchVars, busVars, dashVars, procVars>>

\* main: the store after the migrations, the embedding service as configured,
\* and the event bus wired to the MCP server or not.
Init ==
    /\ EmptyStore
    /\ ops = 0
    /\ last = NoOp
    /\ embCfg \in {New("", ColumnDim), New("http://localhost:8091/embed", ColumnDim)}
    /\ EmbedIdle
    /\ eventsWired \in BOOLEAN
    /\ published = 0
    /\ okCalls = 0
    /\ lastCall = NoCall
    /\ SearchIdle
    /\ BusIdle
    /\ DashIdle
    /\ ProcIdle

Next ==
    \/ HandleProjectRegister
    \/ HandleProjectList
    \/ HandleProjectStatus
    \/ HandleMemorySet
    \/ HandleMemoryGet
    \/ HandleMemoryList
    \/ HandleMemorySearch
    \/ HandleMemoryDelete
    \/ HandleSessionCreate
    \/ HandleSessionGet
    \/ HandleSessionList
    \/ HandleSessionSearch
    \/ HandleFileIndex
    \/ HandleFileSearch

Spec == Init /\ [][Next]_vars

\* C1: a tool call that completes with a non-error result appends exactly one
\* usage_stats row; stated for the calls of a registered tenant made while the
\* usage_stats table can be written, where nothing stands in the way of the row.
C1_OneRecordPerCompletedCall ==
    (/\ lastCall.tool # "none" /\ ~lastCall.isError
     /\ lastCall.usageUp /\ ProjectExists(lastCall.pid))
        => lastCall.recorded = 1

\* C11: a tool call with a required argument absent or empty, or with a numeric
\* argument that is not an integer, returns an error result and has called
\* neither the store nor the embedding service.
C11_InvalidArgumentsRejectedFirst ==
    (lastCall.tool # "none" /\ lastCall.badArgs) => (lastCall.isError /\ lastCall.log = <<>>)

\* C13: with a publisher wired, recordUsage emits "dashboard-stats" exactly once
\* for an accounting record that was persisted and never for one that was not:
\* the signals published so far are as many as the usage_stats rows.
C13_SignalIffPersisted ==
    eventsWired => published = Len(usage_stats)

\* C17: accounting records are append-only.  Whatever tool is called (upserts,
\* deletes and project_register of an existing id included), every usage_stats
\* row that exists stays in place with unchanged fields, so the all-time count
\* never decreases.
C17_UsageAppendOnly ==
    [][/\ Len(usage_stats') >= Len(usage_stats)
       /\ SubSeq(usage_stats', 1, Len(usage_stats)) = usage_stats]_vars

\* Two records exist, project_register has run again on the existing id, and a
\* delete followed.
C17_Witness ==
    /\ Len(usage_stats) = 3
    /\ usage_stats[1].tool_name = "project_register"
    /\ usage_stats[2].tool_name = "project_register"
    /\ usage_stats[3].tool_name = "memory_delete"
    /\ lastCall.tool = "memory_delete" /\ ~lastCall.isError

\* The tools that write content.
WriteTools == {"memory_set", "session_create", "file_index"}

\* C19: when the store rejects a write, the tool call returns an error result,
\* the stored content is unchanged, and the call produces neither an accounting
\* record nor a change event.  A write with valid arguments for a tenant that is
\* not registered is rejected; so is every write that ends in an error result
\* after its store call.
C19_RejectedWriteLeavesNoTrace ==
    [][(lastCall'.tool \in WriteTools /\ ~lastCall'.badArgs)
         => /\ ~ProjectExists(lastCall'.pid) => lastCall'.isError
            /\ lastCall'.isError =>
                  /\ <<projects, memories, sessions, file_index>>'
                        = <<projects, memories, sessions, file_index>>
                  /\ usage_stats' = usage_stats
                  /\ published' = published]_vars

\* memory_set with valid arguments for the unregistered tenant "p1", the
\* database up and a publisher wired: the insert violated the tenant reference.
C19_Witness ==
    /\ lastCall.tool = "memory_set" /\ lastCall.pid = "p1" /\ ~lastCall.badArgs
    /\ lastCall.usageUp /\ lastCall.isError /\ lastCall.log = <<"Embed", "SetMemory">>
    /\ ~ProjectExists("p1") /\ eventsWired
    /\ memories = {} /\ usage_stats = <<>> /\ published = 0

\* C20: a completed project_list call, made while usage_stats can be written,
\* leaves one persisted accounting record: the last usage_stats row is the
\* record of that call.
C20_ProjectListAccounted ==
    (lastCall.tool = "project_list" /\ ~lastCall.isError /\ lastCall.usageUp)
        => /\ lastCall.recorded = 1
           /\ usage_stats # <<>>
           /\ usage_stats[Len(usage_stats)].tool_name = "project_list"

\* C21: session_create accepts only session numbers greater than 0.  A call
\* whose session_num is zero, negative or not an integer stores no session, so
\* every stored session has a positive number.
C21_SessionNumbersPositive ==
    \A r \in sessions : r.session_num > 0

(***************************************************************************)
(* One tool call on a populated store.  The store is as earlier calls left *)
(* it: tenant "p1" registered, either still empty or holding a memory, a   *)
(* session and an indexed file; the call observed is the last one the      *)
(* bound allows.                                                           *)
(***************************************************************************)
UsageInit ==
    /\ \E m \in BOOLEAN, n \in BOOLEAN, f \in BOOLEAN :
         /\ m = n /\ n = f
         /\ projects = {[id |-> "p1", name |-> "demo"]}
         /\ memories = IF m THEN {[id |-> 1, project_id |-> "p1", topic |-> "arch",
                                   key |-> "db", value |-> "auth",
                                   embedding |-> CastVector(EmbStr(NilVector))]}
                            ELSE {}
         /\ sessions = IF n THEN {[id |-> 1, project_id |-> "p1", session_num |-> 1,
                                   title |-> "kickoff", summary |-> "auth", content |-> "",
                                   embedding |-> CastVector(EmbStr(NilVector))]}
                            ELSE {}
         /\ file_index = IF f THEN {[id |-> 1, project_id |-> "p1", file_path |-> "main.go",
                                     file_type |-> "go", summary |-> "auth",
                                     embedding |-> CastVector(EmbStr(NilVector))]}
                              ELSE {}
         /\ memSeq = IF m THEN 1 ELSE 0
         /\ sessSeq = IF n THEN 1 ELSE 0
         /\ fileSeq = IF f THEN 1 ELSE 0
    /\ usage_stats = <<>>
    /\ ops = MaxOps - 1
    /\ last = NoOp
    /\ embCfg \in {New("", ColumnDim), New("http://localhost:8091/embed", ColumnDim)}
    /\ EmbedIdle
    /\ eventsWired \in BOOLEAN
    /\ published = 0
    /\ okCalls = 0
    /\ lastCall = NoCall
    /\ SearchIdle
    /\ BusIdle
    /\ DashIdle
    /\ ProcIdle

SpecUsage == UsageInit /\ [][Next]_vars

\* The stored content: every table but usage_stats, and the id sequences.
contentVars == <<projects, memories, sessions, file_index, memSeq, sessSeq, fileSeq>>

\* The handler registerTools binds to a tool name.
ToolHandler(tool) ==
    CASE tool = "project_register" -> HandleProjectRegister
      [] tool = "project_list" -> HandleProjectList
      [] tool = "project_status" -> HandleProjectStatus
      [] tool = "memory_set" -> HandleMemorySet
      [] tool = "memory_get" -> HandleMemoryGet
      [] tool = "memory_list" -> HandleMemoryList
      [] tool = "memory_search" -> HandleMemorySearch
      [] tool = "memory_delete" -> HandleMemoryDelete
      [] tool = "session_create" -> HandleSessionCreate
      [] tool = "session_get" -> HandleSessionGet
      [] tool = "session_list" -> HandleSessionList
      [] tool = "session_search" -> HandleSessionSearch
      [] tool = "file_index" -> HandleFileIndex
      [] tool = "file_search" -> HandleFileSearch

\* The number of RecordUsage calls a handler made.
UsageAttempts(call) == Cardinality({i \in DOMAIN call.log : call.log[i] = "RecordUsage"})

\* C12: a failure to persist the accounting record does not affect the
\* instrumented operation.  Every call whose RecordUsage failed made exactly one
\* attempt, and the same call from the same state with the usage_stats table
\* writable returns the same result and leaves the same stored content.
C12_UsageFailureInvisible ==
    [][\A call \in {lastCall'}, content \in {contentVars'} :
          (UsageAttempts(call) > 0 /\ ~call.usageUp) =>
              /\ UsageAttempts(call) = 1
              /\ ENABLED (/\ ToolHandler(call.tool)
                          /\ lastCall'.usageUp
                          /\ [lastCall' EXCEPT !.usageUp = FALSE, !.recorded = 0] = call
                          /\ contentVars' = content)]_vars

\* memory_set stored a memory for a registered tenant while usage_stats could not
\* be written.
C12_Witness ==
    /\ lastCall.tool = "memory_set" /\ ~lastCall.isError /\ ~lastCall.usageUp
    /\ UsageAttempts(lastCall) = 1 /\ lastCall.recorded = 0
    /\ usage_stats = <<>> /\ memories # {} /\ ops = MaxOps

(***************************************************************************)
(* recordUsage called with any tool name and result count, as the handlers *)
(* call it after a successful operation of a registered tenant.            *)
(***************************************************************************)
ToolNames == {"project_register", "project_list", "project_status", "memory_set",
              "memory_get", "memory_list", "memory_search", "memory_delete",
              "session_create", "session_get", "session_list", "session_search",
              "file_index", "file_search"}

TokensInit ==
    /\ projects = {[id |-> "p1", name |-> "demo"]}
    /\ memories = {} /\ sessions = {} /\ file_index = {}
    /\ memSeq = 0 /\ sessSeq = 0 /\ fileSeq = 0
    /\ usage_stats = <<>>
    /\ ops = 0
    /\ last = NoOp
    /\ embCfg = New("", ColumnDim)
    /\ EmbedIdle
    /\ eventsWired \in BOOLEAN
    /\ published = 0
    /\ okCalls = 0
    /\ lastCall = NoCall
    /\ SearchIdle
    /\ BusIdle
    /\ DashIdle
    /\ ProcIdle

RecordUsageCall ==
    /\ ops < MaxRecords
    /\ \E toolName \in ToolNames, resultsCount \in 0..MaxResults, usageUp \in BOOLEAN :
         recordUsage(toolName, "p1", "", resultsCount, projects, usageUp)
    /\ ops' = ops + 1
    /\ UNCHANGED <<projects, memories, sessions, file_index, memSeq, sessSeq, fileSeq, last,
                   embedVars, eventsWired, okCalls, lastCall, searchVars, busVars, dashVars, procVars>>

SpecTokens == TokensInit /\ [][RecordUsageCall]_vars

C15_GetTokensAsDocumented ==
    \A i \in DOMAIN usage_stats :
        LET u == usage_stats[i]
        IN /\ u.tool_name = "memory_get" => u.tokens_estimated = u.results_count * 500
           /\ u.tool_name = "session_get" => u.tokens_estimated = u.results_count * 2000

(***************************************************************************)
(* SearchAll, the cross-entity aggregator, and the dashboard search        *)
(* endpoint that calls it.                                                 *)
(***************************************************************************)
\* The collation order of the project names.
NameRank(name) ==
    CASE name = "alpha" -> 1
      [] name = "beta" -> 2
      [] OTHER -> 3

\* ListProjects as SearchAll ranges over it: the rows ORDER BY name, rows of
\* equal name in any order.
ListProjectsOrdered(projs) ==
    {f \in [1..Cardinality(projs) -> projs] :
        /\ \A i, j \in 1..Cardinality(projs) : i # j => f[i] # f[j]
        /\ \A i \in 1..(Cardinality(projs) - 1) :
              NameRank(f[i].name) <= NameRank(f[i + 1].name)}

\* An executor failure that discards what the other tenants contributed.
AppendOrReset(list, res) == IF res.err THEN <<>> ELSE list \o res.rows

\* if err == nil { result.X = append(result.X, rows...) }
AppendResults(list, res) == IF res.err THEN list ELSE list \o res.rows

\* A cap that keeps every accumulated item.
sortAndCapKeepsAll(n, limit) == n

\* sortAndCap := func(n int) int { if n > limit { return limit }; return n }
sortAndCap(n, limit) == IF n > limit THEN limit ELSE n

\* for j := i + 1; j < len(a); j++ { if a[j].Score > a[i].Score { swap } }
RECURSIVE InnerLoop(_, _, _)
InnerLoop(a, i, j) ==
    IF j > Len(a) THEN a
    ELSE InnerLoop(IF a[j].score > a[i].score
                   THEN [a EXCEPT ![i] = a[j], ![j] = a[i]]
                   ELSE a,
                   i, j + 1)

\* for i := 0; i < len(a); i++ { inner loop }
RECURSIVE OuterLoop(_, _)
OuterLoop(a, i) == IF i > Len(a) THEN a ELSE OuterLoop(InnerLoop(a, i, i + 1), i + 1)

\* Only the first pass of the outer loop: the maximum moves to the front.
ExchangeSortFirstPass(a) == InnerLoop(a, 1, 2)

ExchangeSort(a) == OuterLoop(a, 1)

\* The cap applied before the sort instead of after it.
TruncateThenSort(a, limit) == ExchangeSort(SubSeq(a, 1, sortAndCap(Len(a), limit)))

\* result.X = result.X[:sortAndCap(len(result.X))] after the sort
SortAndTruncate(a, limit) == SubSeq(ExchangeSort(a), 1, sortAndCap(Len(a), limit))

\* What one executor call of the loop did.
ExecRecord(kind, pid, res) ==
    [kind |-> kind, project_id |-> pid, err |-> res.err, strategy |-> res.strategy,
     rows |-> res.rows]

\* for _, p := range projects { SearchMemories; SearchSessions; SearchFiles }
\* down: the executor calls (kind, tenant) whose query the engine fails.
RECURSIVE SearchAllLoop(_, _, _, _, _, _, _, _)
SearchAllLoop(order, i, acc, query, embedding, limit, down, tieAsc) ==
    IF i > Len(order) THEN acc
    ELSE LET pid == order[i].id
             m == SearchMemories(pid, query, embedding, limit,
                                 <<"memories", pid>> \notin down, tieAsc)
             ss == SearchSessions(pid, query, embedding, limit,
                                  <<"sessions", pid>> \notin down, tieAsc)
             f == SearchFiles(pid, query, embedding, limit,
                              <<"files", pid>> \notin down, tieAsc)
         IN SearchAllLoop(order, i + 1,
                [memories |-> AppendResults(acc.memories, m),
                 sessions |-> AppendResults(acc.sessions, ss),
                 files |-> AppendResults(acc.files, f),
                 execs |-> acc.execs \o <<ExecRecord("memories", pid, m),
                                          ExecRecord("sessions", pid, ss),
                                          ExecRecord("files", pid, f)>>],
                query, embedding, limit, down, tieAsc)

\* SearchAll(ctx, query, embedding, limit): order is what ListProjects returns,
\* listUp whether its query succeeds.
SearchAll(query, embedding, limit, order, listUp, down, tieAsc) ==
    LET lim == EffectiveLimit(limit)
        acc == SearchAllLoop(order, 1,
                   [memories |-> <<>>, sessions |-> <<>>, files |-> <<>>, execs |-> <<>>],
                   query, embedding, lim, down, tieAsc)
    IN IF ~listUp
       THEN [err |-> TRUE, memories |-> <<>>, sessions |-> <<>>, files |-> <<>>,
             execs |-> <<>>]
       ELSE [err |-> FALSE,
             memories |-> SortAndTruncate(acc.memories, lim),
             sessions |-> SortAndTruncate(acc.sessions, lim),
             files |-> SortAndTruncate(acc.files, lim),
             execs |-> acc.execs]

\* The record of one SearchAll call.
SearchRecord(op, query, embedding, limit, order, log, res) ==
    [op |-> op, query |-> query, embedding |-> embedding, limit |-> limit,
     err |-> res.err, order |-> [i \in 1..Len(order) |-> order[i].id],
     execs |-> res.execs, log |-> log,
     memories |-> res.memories, sessions |-> res.sessions, files |-> res.files]

(***************************************************************************)
(* SpecSearchAll: SearchAll and the dashboard search endpoint over a       *)
(* store that earlier upserts have populated: two registered tenants, up   *)
(* to MaxRows notes, transcripts and files each.                           *)
(***************************************************************************)
SaTenants == <<"p1", "p2">>
SaNames == {<<"alpha", "beta">>, <<"beta", "alpha">>, <<"alpha", "alpha">>}

SaKeys == <<"k1", "k2", "k3", "k4", "k5", "k6", "k7", "k8">>
SaPaths == <<"a.go", "b.go", "c.go", "d.go", "e.go", "f.go", "g.go", "h.go">>
SaTexts == <<"auth auth", "db", "auth", "auth db auth auth", "auth", "auth auth",
             "auth db auth auth">>
SaStored == <<Vec(ColumnDim, 1), Vec(ColumnDim, 3), SqlNull, Vec(ColumnDim, 2),
              Vec(ColumnDim, 1), Vec(ColumnDim, 2), Vec(ColumnDim, 3)>>
SaQueries == {"auth", "db"}
SaLimits == {-1, 0, 1, 2, 7}
\* What the engine fails during one call: the ListProjects query, or the queries
\* of some executor calls.
SaExecutors == {"memories", "sessions", "files"} \X {"p1", "p2"}
SaDown == {{}} \cup {{e} : e \in SaExecutors}
              \cup {{<<"memories", "p1">>, <<"sessions", "p1">>, <<"files", "p1">>}}
SaFailures == {[listUp |-> FALSE, down |-> {}]} \cup {[listUp |-> TRUE, down |-> d] : d \in SaDown}
ApiSearchLimit == 10

\* The text and the vector of tenant t's i-th row of a kind (k: 0, 1 or 2).
SaText(t, i, k) == SaTexts[((i + t + k) % Len(SaTexts)) + 1]
SaVector(t, i, k) == SaStored[((i + 2 * t + k) % Len(SaStored)) + 1]

\* Rows of tenant t with ids base+1 .. base+n.
SaMemories(t, n, base) ==
    {[id |-> base + i, project_id |-> SaTenants[t], topic |-> "arch", key |-> SaKeys[i],
      value |-> SaText(t, i, 0), embedding |-> SaVector(t, i, 0)] : i \in 1..n}
SaSessions(t, n, base) ==
    {[id |-> base + i, project_id |-> SaTenants[t], session_num |-> i,
      title |-> SaText(t, i, 1), summary |-> "", content |-> "",
      embedding |-> SaVector(t, i, 1)] : i \in 1..n}
SaFiles(t, n, base) ==
    {[id |-> base + i, project_id |-> SaTenants[t], file_path |-> SaPaths[i],
      file_type |-> "go", summary |-> SaText(t, i, 2),
      embedding |-> SaVector(t, i, 2)] : i \in 1..n}

SearchAllInit ==
    /\ \E n1 \in 0..MaxRows, n2 \in 0..MaxRows, names \in SaNames :
         /\ projects = {[id |-> SaTenants[t], name |-> names[t]] : t \in 1..2}
         /\ memories = SaMemories(1, n1, 0) \cup SaMemories(2, n2, n1)
         /\ sessions = SaSessions(1, n2, 0) \cup SaSessions(2, n1, n2)
         /\ file_index = SaFiles(1, MaxRows - n1, 0) \cup SaFiles(2, MaxRows - n2, MaxRows - n1)
         /\ memSeq = n1 + n2
         /\ sessSeq = n1 + n2
         /\ fileSeq = 2 * MaxRows - n1 - n2
    /\ usage_stats = <<>>
    /\ ops = 0
    /\ last = NoOp
    /\ embCfg = New("http://localhost:8091/embed", ColumnDim)
    /\ EmbedIdle
    /\ McpIdle
    /\ SearchIdle
    /\ BusIdle
    /\ DashIdle
    /\ ProcIdle

\* Store.SearchAll called with any query, vector and limit.
StoreSearchAll ==
    /\ ops < MaxSearches
    /\ \E query \in SaQueries, embedding \in Vectors, limit \in SaLimits,
          order \in ListProjectsOrdered(projects), fail \in SaFailures, tieAsc \in BOOLEAN :
         saCall' = SearchRecord("SearchAll", query, embedding, limit, order, <<"SearchAll">>,
                                SearchAll(query, embedding, limit, order, fail.listUp,
                                          fail.down, tieAsc))
    /\ ops' = ops + 1
    /\ UNCHANGED <<storeVars, last, embedVars, mcpVars, busVars, dashVars, procVars>>

\* GET /api/search?q=...
HandleAPISearch ==
    /\ ops < MaxSearches
    /\ \E query \in SaQueries \cup {""}, resp \in HandlerResponses,
          order \in ListProjectsOrdered(projects), fail \in SaFailures, tieAsc \in BOOLEAN :
         IF query = ""
         THEN saCall' = [NoSearch EXCEPT !.op = "handleAPISearch"]
         ELSE LET emb == Embed(embCfg, query, resp)
              IN saCall' = SearchRecord("handleAPISearch", query, emb, ApiSearchLimit, order,
                               <<"Embed", "SearchAll">>,
                               SearchAll(query, emb, ApiSearchLimit, order, fail.listUp,
                                         fail.down, tieAsc))
    /\ ops' = ops + 1
    /\ UNCHANGED <<storeVars, last, embedVars, mcpVars, busVars, dashVars, procVars>>

SearchAllNext ==
    \/ StoreSearchAll
    \/ HandleAPISearch

SpecSearchAll == SearchAllInit /\ [][SearchAllNext]_vars

\* The three result lists of the last SearchAll call, by kind.
SaList(kind) ==
    CASE kind = "memories" -> saCall.memories
      [] kind = "sessions" -> saCall.sessions
      [] kind = "files" -> saCall.files
SaKinds == {"memories", "sessions", "files"}
SaSearched == saCall.op # "none" /\ saCall.log # <<>>
SaLimit == IF saCall.limit <= 0 THEN 10 ELSE saCall.limit

\* The items the executor calls of a kind returned without error, and those calls.
SaOkExecs(kind) ==
    {i \in DOMAIN saCall.execs : saCall.execs[i].kind = kind /\ ~saCall.execs[i].err}
SaReturned(kind) ==
    UNION {{saCall.execs[i].rows[k] : k \in DOMAIN saCall.execs[i].rows} : i \in SaOkExecs(kind)}
SaItems(kind) == {SaList(kind)[k] : k \in DOMAIN SaList(kind)}
SaFailed(kind) ==
    {saCall.execs[i].project_id :
        i \in {j \in DOMAIN saCall.execs : saCall.execs[j].kind = kind /\ saCall.execs[j].err}}

\* C2: a SearchAll result holds at most `limit` notes, at most `limit`
\* transcripts and at most `limit` files over all tenants together, a limit
\* <= 0 counting as 10.
C2_SearchAllWithinLimit ==
    SaSearched => \A kind \in SaKinds : Len(SaList(kind)) <= SaLimit

\* C2 witness: called with a limit <= 0, the executors returned more than 10
\* notes over the two tenants and SearchAll returned 10 of them.
C2_Witness ==
    /\ SaSearched /\ ~saCall.err /\ saCall.limit <= 0
    /\ Cardinality(SaReturned("memories")) > 10
    /\ \E i, j \in SaOkExecs("memories") :
          /\ saCall.execs[i].project_id # saCall.execs[j].project_id
          /\ saCall.execs[i].rows # <<>> /\ saCall.execs[j].rows # <<>>
    /\ Len(saCall.memories) = 10

\* C3: each list of a SearchAll result is in non-increasing order of score,
\* whichever tenants its items come from and whichever scores are equal.
C3_SearchAllSortedByScore ==
    SaSearched =>
        \A kind \in SaKinds :
            \A k \in 1..(Len(SaList(kind)) - 1) :
                SaList(kind)[k].score >= SaList(kind)[k + 1].score

\* C3 witness: a list of transcripts from both tenants with equal scores and
\* distinct scores in it, whose first item was returned by the tenant searched
\* last.
C3_Witness ==
    /\ SaSearched /\ ~saCall.err
    /\ Len(saCall.sessions) >= 4
    /\ \E k \in 1..(Len(saCall.sessions) - 1) :
          /\ saCall.sessions[k].score = saCall.sessions[k + 1].score
          /\ saCall.sessions[k].project_id # saCall.sessions[k + 1].project_id
    /\ saCall.sessions[1].score > saCall.sessions[Len(saCall.sessions)].score
    /\ saCall.sessions[1].project_id = saCall.order[Len(saCall.order)]
    /\ saCall.sessions[1].project_id # saCall.order[1]

\* C4: an executor failure never fails SearchAll; the failing tenant has no item
\* in the list of that kind, and the list is made of the best-scoring items
\* that the other executor calls of the kind returned, up to the limit.
C4_ExecutorFailureSkipsTenant ==
    SaSearched =>
        /\ (saCall.err => saCall.execs = <<>>)
        /\ (~saCall.err =>
              \A kind \in SaKinds :
                  /\ \A it \in SaItems(kind) : it.project_id \notin SaFailed(kind)
                  /\ SaItems(kind) \subseteq SaReturned(kind)
                  /\ Cardinality(SaItems(kind)) = Len(SaList(kind))
                  /\ Len(SaList(kind)) =
                        (IF Cardinality(SaReturned(kind)) < SaLimit
                         THEN Cardinality(SaReturned(kind)) ELSE SaLimit)
                  /\ \A out \in SaReturned(kind) \ SaItems(kind) :
                        \A it \in SaItems(kind) : out.score <= it.score)

\* C4 witness: the notes executor failed for the tenant searched last, which
\* has notes stored; SearchAll succeeded with the other tenant's notes and
\* with the failing tenant's files.
C4_Witness ==
    /\ SaSearched /\ ~saCall.err
    /\ \E p \in SaFailed("memories") :
          /\ p = saCall.order[Len(saCall.order)] /\ p # saCall.order[1]
          /\ \E r \in memories : r.project_id = p
          /\ \E it \in SaItems("files") : it.project_id = p
    /\ saCall.memories # <<>>

RECURSIVE SaConcat(_, _)
SaConcat(kind, i) ==
    IF i > Len(saCall.execs) THEN <<>>
    ELSE (IF saCall.execs[i].kind = kind /\ ~saCall.execs[i].err
          THEN saCall.execs[i].rows ELSE <<>>) \o SaConcat(kind, i + 1)
SaAccumulated(kind) == SaConcat(kind, 1)

\* The insertion position of an item of a kind.
SaPosition(kind, item) ==
    CHOOSE k \in DOMAIN SaAccumulated(kind) : SaAccumulated(kind)[k] = item

\* C23: in a SearchAll result, items of equal score keep their insertion order
\* (tenant enumeration order, then executor result order), and the truncation
\* keeps the earliest-inserted items among those of equal score.
C23_TiesKeepInsertionOrder ==
    (SaSearched /\ ~saCall.err) =>
        \A kind \in SaKinds :
            /\ \A k, l \in DOMAIN SaList(kind) :
                  (k < l /\ SaList(kind)[k].score = SaList(kind)[l].score)
                      => SaPosition(kind, SaList(kind)[k]) < SaPosition(kind, SaList(kind)[l])
            /\ \A k \in DOMAIN SaList(kind), m \in DOMAIN SaAccumulated(kind) :
                  (/\ SaAccumulated(kind)[m] \notin SaItems(kind)
                   /\ SaAccumulated(kind)[m].score = SaList(kind)[k].score)
                      => SaPosition(kind, SaList(kind)[k]) < m

\* The table an executor of a kind reads.
SaTable(kind) ==
    CASE kind = "memories" -> memories
      [] kind = "sessions" -> sessions
      [] kind = "files" -> file_index

\* All qualifying items of a kind over the listed tenants, with their scores:
\* what the executors return when no limit cuts their results.
SaQualifying(kind) ==
    UNION {LET res == Executor(SaTable(kind), kind, saCall.order[t], saCall.query,
                               saCall.embedding, 2 * MaxRows + 1, TRUE, TRUE)
           IN {res.rows[k] : k \in DOMAIN res.rows} : t \in DOMAIN saCall.order}

SaMin(a, b) == IF a < b THEN a ELSE b

\* C24: SearchAll returns a global top-k.  When every executor call of a kind
\* succeeded, the list of that kind holds min(limit, N) distinct items of the N
\* qualifying items over all tenants, and it holds each score as often as the
\* min(limit, N) highest scores do.
C24_GlobalTopK ==
    (SaSearched /\ ~saCall.err) =>
        \A kind \in SaKinds :
            SaFailed(kind) = {} =>
                LET all == SaQualifying(kind)
                    k == SaMin(SaLimit, Cardinality(all))
                IN /\ Len(SaList(kind)) = k
                   /\ Cardinality(SaItems(kind)) = k
                   /\ SaItems(kind) \subseteq all
                   /\ \A q \in all :
                         LET above == Cardinality({x \in all : x.score > q.score})
                             same == Cardinality({x \in all : x.score = q.score})
                             room == IF k > above THEN k - above ELSE 0
                         IN Cardinality({x \in SaItems(kind) : x.score = q.score})
                                = SaMin(same, room)

\* Called with limit 2 and no failure: each tenant has more than 2 qualifying
\* notes, the scores differ, and the 2 notes returned come from both tenants.
C24_Witness ==
    /\ SaSearched /\ ~saCall.err /\ saCall.limit = 2
    /\ \A kind \in SaKinds : SaFailed(kind) = {}
    /\ \A t \in DOMAIN saCall.order :
          Cardinality({q \in SaQualifying("memories") : q.project_id = saCall.order[t]}) > 2
    /\ \E q, x \in SaQualifying("memories") : q.score # x.score
    /\ Len(saCall.memories) = 2
    /\ saCall.memories[1].project_id # saCall.memories[2].project_id

\* C27: a completed SearchAll call issued through the dashboard search endpoint
\* is accounted for: once handleAPISearch has returned its results, usage_stats
\* holds a record of the retrieval and a change notification was published.
C27_DashboardSearchAccounted ==
    (saCall.op = "handleAPISearch" /\ saCall.log # <<>> /\ ~saCall.err)
        => (usage_stats # <<>> /\ published > 0)

(***************************************************************************)
(* The event bus: Publish called by concurrent request handlers, Subscribe *)
(* and the returned unsub called by concurrent observers.  A step is what  *)
(* a goroutine does between two points where it can block or be           *)
(* interleaved: acquiring eb.mu, one iteration of a loop over a channel    *)
(* or over the clients.                                                    *)
(***************************************************************************)
InboxCapacity == 16
Events == {"dashboard-stats"}

\* A lock whose Lock() does not wait for the holders of RLock().
NoReaders == {}

\* eb.mu: read-held by the publishers inside Publish; Lock() waits for them,
\* and a waiting Lock() holds back a new RLock().
Readers == {p \in Publishers : pubPc[p] = "locked"}
WritersWaiting == {s \in Subscribers : subPc[s] \in {"subscribing", "unsub"}}

\* A send that queues the event whatever the length of the buffer.
SendUnbounded(buf, event) == [sent |-> TRUE, buf |-> Append(buf, event)]

\* A send that still queues the event when the buffer holds 16.
TrySendOffByOne(buf, event) ==
    IF Len(buf) <= InboxCapacity
    THEN [sent |-> TRUE, buf |-> Append(buf, event)]
    ELSE [sent |-> FALSE, buf |-> buf]

\* select { case ch <- event: default: } on a channel of capacity 16
TrySend(buf, event) ==
    IF Len(buf) < InboxCapacity
    THEN [sent |-> TRUE, buf |-> Append(buf, event)]
    ELSE [sent |-> FALSE, buf |-> buf]

\* No statement of the program closes a subscriber's channel.
ChanClosed(s) == FALSE

\* Subscribe() is called: ch := make(chan string, 16), then eb.mu.Lock().
SubscribeCall(s) ==
    /\ subPc[s] = "new"
    /\ subPc' = [subPc EXCEPT ![s] = "subscribing"]
    /\ inbox' = [inbox EXCEPT ![s] = <<>>]
    /\ UNCHANGED <<clients, pubPc, pubTodo, pubSkipped>>

\* eb.mu.Lock(); eb.clients[ch] = struct{}{}; eb.mu.Unlock(); return ch, unsub
SubscribeRegister(s) ==
    /\ subPc[s] = "subscribing"
    /\ Readers = {}
    /\ clients' = clients \cup {s}
    /\ subPc' = [subPc EXCEPT ![s] = "subscribed"]
    /\ UNCHANGED <<inbox, pubPc, pubTodo, pubSkipped>>

\* The observer receives one event from its channel.
Receive(s) ==
    /\ subPc[s] = "subscribed"
    /\ inbox[s] # <<>>
    /\ inbox' = [inbox EXCEPT ![s] = Tail(inbox[s])]
    /\ UNCHANGED <<clients, subPc, pubPc, pubTodo, pubSkipped>>

\* The observer calls unsub(): it stops receiving and goes for eb.mu.Lock().
UnsubCall(s) ==
    /\ subPc[s] = "subscribed"
    /\ subPc' = [subPc EXCEPT ![s] = "unsub"]
    /\ UNCHANGED <<clients, inbox, pubPc, pubTodo, pubSkipped>>

\* eb.mu.Lock(); delete(eb.clients, ch); eb.mu.Unlock()
UnsubDelete(s) ==
    /\ subPc[s] = "unsub"
    /\ Readers = {}
    /\ clients' = clients \ {s}
    /\ subPc' = [subPc EXCEPT ![s] = "drain"]
    /\ UNCHANGED <<inbox, pubPc, pubTodo, pubSkipped>>

\* One iteration of "for range ch {}": it takes a buffered event; it leaves the
\* loop, and unsub returns, when the channel is closed and empty; otherwise it
\* waits.
UnsubDrain(s) ==
    /\ subPc[s] = "drain"
    /\ IF inbox[s] # <<>>
       THEN /\ inbox' = [inbox EXCEPT ![s] = Tail(inbox[s])]
            /\ UNCHANGED subPc
       ELSE /\ ChanClosed(s)
            /\ subPc' = [subPc EXCEPT ![s] = "done"]
            /\ UNCHANGED inbox
    /\ UNCHANGED <<clients, pubPc, pubTodo, pubSkipped>>

\* Publish(event) is called: eb.mu.RLock(), and the range over eb.clients begins.
PublishBegin(p) ==
    /\ pubPc[p] = "idle"
    /\ WritersWaiting = {}
    /\ pubPc' = [pubPc EXCEPT ![p] = "locked"]
    /\ pubTodo' = [pubTodo EXCEPT ![p] = clients]
    /\ pubSkipped' = [pubSkipped EXCEPT ![p] = {}]
    /\ UNCHANGED <<clients, inbox, subPc>>

\* One iteration of "for ch := range eb.clients", in the map's order.
PublishSend(p, s) ==
    /\ pubPc[p] = "locked"
    /\ s \in pubTodo[p]
    /\ \E event \in Events :
         LET r == TrySend(inbox[s], event)
         IN /\ inbox' = [inbox EXCEPT ![s] = r.buf]
            /\ pubSkipped' = [pubSkipped EXCEPT
                                ![p] = IF r.sent THEN pubSkipped[p] ELSE pubSkipped[p] \cup {s}]
    /\ pubTodo' = [pubTodo EXCEPT ![p] = pubTodo[p] \ {s}]
    /\ UNCHANGED <<clients, subPc, pubPc>>

\* The range is over: the deferred eb.mu.RUnlock() runs and Publish returns.
PublishEnd(p) ==
    /\ pubPc[p] = "locked"
    /\ pubTodo[p] = {}
    /\ pubPc' = [pubPc EXCEPT ![p] = "idle"]
    /\ UNCHANGED <<clients, inbox, subPc, pubTodo, pubSkipped>>

BusRest == UNCHANGED <<storeVars, ops, last, embedVars, mcpVars, searchVars, dashVars, procVars>>

BusInit ==
    /\ EmptyStore
    /\ ops = 0
    /\ last = NoOp
    /\ embCfg = New("", ColumnDim)
    /\ EmbedIdle
    /\ McpIdle
    /\ SearchIdle
    /\ BusIdle
    /\ DashIdle
    /\ ProcIdle

BusNext ==
    \/ \E s \in Subscribers : SubscribeCall(s) /\ BusRest
    \/ \E s \in Subscribers : SubscribeRegister(s) /\ BusRest
    \/ \E s \in Subscribers : Receive(s) /\ BusRest
    \/ \E s \in Subscribers : UnsubCall(s) /\ BusRest
    \/ \E s \in Subscribers : UnsubDelete(s) /\ BusRest
    \/ \E s \in Subscribers : UnsubDrain(s) /\ BusRest
    \/ \E p \in Publishers : PublishBegin(p) /\ BusRest
    \/ \E p \in Publishers, s \in Subscribers : PublishSend(p, s) /\ BusRest
    \/ \E p \in Publishers : PublishEnd(p) /\ BusRest

SpecBus == BusInit /\ [][BusNext]_vars

\* The steps a goroutine takes once it is inside Subscribe, unsub or Publish.
\* Calling them, and receiving, is up to the callers.
SubscriberRuns(s) == (SubscribeRegister(s) \/ UnsubDelete(s) \/ UnsubDrain(s)) /\ BusRest
PublisherRuns(p) == ((\E s \in Subscribers : PublishSend(p, s)) \/ PublishEnd(p)) /\ BusRest

\* The Go scheduler: a goroutine that can take its next step eventually takes it.
SpecBusFair ==
    /\ BusInit
    /\ [][BusNext]_vars
    /\ \A s \in Subscribers : WF_vars(SubscriberRuns(s))
    /\ \A p \in Publishers : WF_vars(PublisherRuns(p))

\* Publisher p is at its iteration for subscriber s in this step.
PublishVisits(p, s) ==
    pubPc[p] = "locked" /\ s \in pubTodo[p] /\ pubTodo'[p] = pubTodo[p] \ {s}

\* Inside Publish no step waits: every pending iteration can run, and after the
\* last one Publish can return.
PublishNeverWaits ==
    \A p \in Publishers :
        pubPc[p] = "locked" =>
            /\ \A s \in pubTodo[p] : ENABLED PublishSend(p, s)
            /\ (pubTodo[p] = {} => ENABLED PublishEnd(p))

\* C8: when Publish comes to a subscriber whose inbox holds 16 events, the
\* inbox stays as it is and Publish goes on to the next subscriber; a subscriber
\* whose inbox has room gets the event appended, whatever happened to the
\* others; Publish never waits, and it returns only after it has visited every
\* registered subscriber.
C8_FullInboxSkipped ==
    /\ []PublishNeverWaits
    /\ [][/\ \A p \in Publishers, s \in Subscribers :
               PublishVisits(p, s) =>
                   /\ pubPc'[p] = "locked"
                   /\ \A o \in Subscribers \ {s} : inbox'[o] = inbox[o]
                   /\ IF Len(inbox[s]) >= InboxCapacity
                      THEN inbox'[s] = inbox[s] /\ s \in pubSkipped'[p]
                      ELSE /\ inbox'[s] = Append(inbox[s], "dashboard-stats")
                           /\ s \notin pubSkipped'[p]
          /\ \A p \in Publishers :
               (pubPc[p] = "locked" /\ pubPc'[p] = "idle") => pubTodo[p] = {}
          /\ \A p \in Publishers :
               (pubPc[p] = "idle" /\ pubPc'[p] = "locked") => pubTodo'[p] = clients
         ]_vars

\* C8 witness: one Publish has skipped a subscriber whose inbox holds 16
\* events, has delivered to the other registered subscriber and is about to
\* return.
C8_Witness ==
    \E p \in Publishers, s, o \in Subscribers :
        /\ pubPc[p] = "locked" /\ pubTodo[p] = {}
        /\ s \in clients /\ o \in clients /\ s # o
        /\ s \in pubSkipped[p] /\ Len(inbox[s]) = InboxCapacity
        /\ o \notin pubSkipped[p] /\ inbox[o] # <<>> /\ Len(inbox[o]) < InboxCapacity

\* C25: each Publish delivers the event exactly once to every subscriber that is
\* registered during the call and has inbox room, and never to a subscriber
\* whose removal completed before the call began.  The lock excludes registration
\* and removal from the enumeration: the registry does not change while a
\* Publish is inside its loop, a Publish visits the registry as it was when the
\* call began, each member once, and an inbox grows only by one event, only in
\* such a visit, and only while its subscriber is registered.
C25_PublishDeliversToRegistered ==
    [][/\ (\E p \in Publishers : pubPc[p] = "locked") => clients' = clients
       /\ \A p \in Publishers :
             /\ (pubPc[p] = "idle" /\ pubPc'[p] = "locked") => pubTodo'[p] = clients
             /\ (pubPc[p] = "locked" /\ pubPc'[p] = "idle") => pubTodo[p] = {}
             /\ pubPc[p] = "locked" => pubTodo[p] \subseteq clients
             /\ \A s \in Subscribers :
                   PublishVisits(p, s) =>
                       /\ s \in clients
                       /\ Len(inbox[s]) < InboxCapacity
                             => inbox'[s] = Append(inbox[s], "dashboard-stats")
       /\ \A s \in Subscribers :
             Len(inbox'[s]) > Len(inbox[s]) =>
                 /\ s \in clients
                 /\ Len(inbox'[s]) = Len(inbox[s]) + 1
                 /\ \E p \in Publishers : PublishVisits(p, s)]_vars

\* A Publish that began after one subscriber's removal has visited the whole
\* registry: the subscriber still registered got the event, the removed one has
\* an empty inbox.
C25_Witness ==
    \E p \in Publishers, s, o \in Subscribers :
        /\ pubPc[p] = "locked" /\ pubTodo[p] = {} /\ pubSkipped[p] = {}
        /\ clients = {s} /\ inbox[s] = <<"dashboard-stats">>
        /\ subPc[o] = "drain" /\ inbox[o] = <<>>

\* C26: each subscriber's inbox holds at most 16 pending events, with any
\* interleaving of publishers and any consumer speed, and accepted events are
\* received in the order they were accepted: an inbox changes only by an event
\* joining at its end or by its first event being taken.
C26_InboxBoundedFifo ==
    /\ [](\A s \in Subscribers : Len(inbox[s]) <= InboxCapacity)
    /\ [][\A s \in Subscribers :
             \/ inbox'[s] = inbox[s]
             \/ \E event \in Events : inbox'[s] = Append(inbox[s], event)
             \/ inbox[s] # <<>> /\ inbox'[s] = Tail(inbox[s])]_vars

\* Both publishers are inside Publish at once and both found the inbox of a
\* registered subscriber full, while the other subscriber has consumed its
\* events.
C26_Witness ==
    \E s, o \in Subscribers :
        /\ s # o /\ clients = {s, o}
        /\ Len(inbox[s]) = InboxCapacity /\ inbox[o] = <<>>
        /\ \A p \in Publishers : pubPc[p] = "locked" /\ s \in pubSkipped[p]

\* C9: a call of unsub returns: the subscriber that entered unsub eventually
\* is past the drain loop.
C9_UnsubReturns ==
    \A s \in Subscribers : (subPc[s] = "unsub") ~> (subPc[s] = "done")


(***************************************************************************)
(* GetDashboardStats.  The function issues its queries one after another   *)
(* on the pool, outside any transaction, and drops the error of every      *)
(* count query; tool calls go on appending usage_stats rows between its    *)
(* queries.  Each query is a step.  GetProjectStats is one step, its four  *)
(* count queries failing independently.                                    *)
(***************************************************************************)
RECURSIVE SumTokens(_)
\* sum(tokens_estimated); the coalesce gives 0 for no row
SumTokens(rows) ==
    IF rows = <<>> THEN 0 ELSE Head(rows).tokens_estimated + SumTokens(Tail(rows))

\* WHERE created_at > now() - interval '24 hours'
Last24h == SubSeq(usage_stats, aged + 1, Len(usage_stats))

\* WHERE project_id=$1
UsageOf(pid) == SelectSeq(usage_stats, LAMBDA u : u.project_id = pid)

\* GetProjectStats(p.ID), given the count queries that fail
GetProjectStats(p, failed) ==
    [id |-> p.id,
     MemoryCount |-> IF "memories" \in failed THEN 0
                     ELSE Cardinality({r \in memories : r.project_id = p.id}),
     SessionCount |-> IF "sessions" \in failed THEN 0
                      ELSE Cardinality({r \in sessions : r.project_id = p.id}),
     FileCount |-> IF "file_index" \in failed THEN 0
                   ELSE Cardinality({r \in file_index : r.project_id = p.id}),
     QueryCount |-> IF "usage_stats" \in failed THEN 0 ELSE Len(UsageOf(p.id)),
     TokensSaved |-> IF "usage_stats" \in failed THEN 0 ELSE SumTokens(UsageOf(p.id))]

GetDashboardStatsCall ==
    /\ dash.pc = "idle"
    /\ dash' = [NoDash EXCEPT !.pc = "projects"]
    /\ UNCHANGED <<storeVars, ops, last, embedVars, mcpVars, searchVars, busVars, aged, procVars>>

\* SELECT count(*) FROM projects | memories | sessions | file_index
CountQuery ==
    /\ dash.pc \in {"projects", "memories", "sessions", "file_index"}
    /\ \E ok \in BOOLEAN :
         dash' = CASE dash.pc = "projects" ->
                        [dash EXCEPT !.pc = "memories",
                                     !.ds.ProjectCount = IF ok THEN Cardinality(projects) ELSE @]
                   [] dash.pc = "memories" ->
                        [dash EXCEPT !.pc = "sessions",
                                     !.ds.MemoryCount = IF ok THEN Cardinality(memories) ELSE @]
                   [] dash.pc = "sessions" ->
                        [dash EXCEPT !.pc = "file_index",
                                     !.ds.SessionCount = IF ok THEN Cardinality(sessions) ELSE @]
                   [] dash.pc = "file_index" ->
                        [dash EXCEPT !.pc = "total",
                                     !.ds.FileCount = IF ok THEN Cardinality(file_index) ELSE @]
    /\ UNCHANGED <<storeVars, ops, last, embedVars, mcpVars, searchVars, busVars, aged, procVars>>

\* SELECT count(*), sum(tokens_estimated) FROM usage_stats
TotalQuery ==
    /\ dash.pc = "total"
    /\ \E ok \in BOOLEAN :
         dash' = [dash EXCEPT !.pc = "last24h",
                              !.ds.TotalQueries = IF ok THEN Len(usage_stats) ELSE @,
                              !.ds.TotalTokensSaved = IF ok THEN SumTokens(usage_stats) ELSE @]
    /\ UNCHANGED <<storeVars, ops, last, embedVars, mcpVars, searchVars, busVars, aged, procVars>>

\* SELECT count(*), sum(tokens_estimated) FROM usage_stats WHERE created_at > ...
Last24hQuery ==
    /\ dash.pc = "last24h"
    /\ \E ok \in BOOLEAN :
         dash' = [dash EXCEPT !.pc = "list",
                              !.ds.QueriesLast24h = IF ok THEN Len(Last24h) ELSE @,
                              !.ds.TokensLast24h = IF ok THEN SumTokens(Last24h) ELSE @]
    /\ UNCHANGED <<storeVars, ops, last, embedVars, mcpVars, searchVars, busVars, aged, procVars>>

\* projects, err := s.ListProjects(ctx); if err != nil { return ds, err }
ListForStats ==
    /\ dash.pc = "list"
    /\ \/ dash' = [dash EXCEPT !.pc = "done", !.err = TRUE]
       \/ \E order \in ListProjectsOrdered(projects) :
            dash' = [dash EXCEPT !.pc = "stats", !.todo = order]
    /\ UNCHANGED <<storeVars, ops, last, embedVars, mcpVars, searchVars, busVars, aged, procVars>>

\* One round of "for _, p := range projects", or the return after the loop.
ProjectStatsStep ==
    /\ dash.pc = "stats"
    /\ IF dash.todo = <<>>
       THEN dash' = [dash EXCEPT !.pc = "done"]
       ELSE \/ dash' = [dash EXCEPT !.todo = Tail(@)]
            \/ /\ Head(dash.todo) \in projects
               /\ \E failed \in SUBSET {"memories", "sessions", "file_index", "usage_stats"} :
                    dash' = [dash EXCEPT !.todo = Tail(@),
                                         !.ds.Projects =
                                             Append(@, GetProjectStats(Head(dash.todo), failed))]
    /\ UNCHANGED <<storeVars, ops, last, embedVars, mcpVars, searchVars, busVars, aged, procVars>>

\* A tool call of tenant "p1" reaches recordUsage while the summary is computed.
ConcurrentToolCall ==
    /\ ops < MaxRecords
    /\ \E toolName \in {"memory_search", "project_status"}, resultsCount \in 0..1,
          usageUp \in BOOLEAN :
         recordUsage(toolName, "p1", "", resultsCount, projects, usageUp)
    /\ ops' = ops + 1
    /\ UNCHANGED <<projects, memories, sessions, file_index, memSeq, sessSeq, fileSeq, last,
                   embedVars, eventsWired, okCalls, lastCall, searchVars, busVars, dashVars, procVars>>

\* Time passes: the oldest row younger than 24 hours becomes older than that.
Tick ==
    /\ aged < Len(usage_stats)
    /\ aged' = aged + 1
    /\ UNCHANGED <<storeVars, ops, last, embedVars, mcpVars, searchVars, busVars, dash, procVars>>

DashboardNext ==
    \/ GetDashboardStatsCall
    \/ CountQuery
    \/ TotalQuery
    \/ Last24hQuery
    \/ ListForStats
    \/ ProjectStatsStep
    \/ ConcurrentToolCall
    \/ Tick

SpecDashboard == TokensInit /\ [][DashboardNext]_vars

\* C16: in every summary GetDashboardStats returns, all counts and sums are
\* non-negative, QueriesLast24h <= TotalQueries and TokensLast24h <=
\* TotalTokensSaved, also when tool calls append accounting records while the
\* summary is computed and when a count query fails.
C16_DashboardConsistent ==
    dash.pc = "done" =>
        /\ dash.ds.ProjectCount >= 0 /\ dash.ds.MemoryCount >= 0
        /\ dash.ds.SessionCount >= 0 /\ dash.ds.FileCount >= 0
        /\ dash.ds.TotalQueries >= 0 /\ dash.ds.TotalTokensSaved >= 0
        /\ dash.ds.QueriesLast24h >= 0 /\ dash.ds.TokensLast24h >= 0
        /\ \A i \in DOMAIN dash.ds.Projects :
              /\ dash.ds.Projects[i].MemoryCount >= 0
              /\ dash.ds.Projects[i].SessionCount >= 0
              /\ dash.ds.Projects[i].FileCount >= 0
              /\ dash.ds.Projects[i].QueryCount >= 0
              /\ dash.ds.Projects[i].TokensSaved >= 0
        /\ dash.ds.QueriesLast24h <= dash.ds.TotalQueries
        /\ dash.ds.TokensLast24h <= dash.ds.TotalTokensSaved

(***************************************************************************)
(* The dashboard's memory update, PUT /api/memories/{id}.  The handler     *)
(* reads the memory with findMemoryByID and writes it back with SetMemory  *)
(* in two separate store calls; other requests write and delete memories   *)
(* between the two.                                                        *)
(***************************************************************************)
\* findMemoryByID: the memory with this id among the memories of the listed
\* projects; nothing when ListProjects or ListMemories fails (errors dropped).
findMemoryByID(id, dbUp) ==
    IF ~dbUp THEN {}
    ELSE {m \in memories : m.id = id /\ ProjectExists(m.project_id)}

WebInit ==
    /\ projects = {[id |-> pid, name |-> pid] : pid \in ProjectIDs}
    /\ memories = {} /\ sessions = {} /\ file_index = {}
    /\ memSeq = 0 /\ sessSeq = 0 /\ fileSeq = 0
    /\ usage_stats = <<>>
    /\ ops = 0
    /\ last = NoOp
    /\ embCfg \in {New("", ColumnDim), New("http://localhost:8091/embed", ColumnDim)}
    /\ EmbedIdle
    /\ McpIdle
    /\ SearchIdle
    /\ BusIdle
    /\ DashIdle
    /\ ProcIdle

\* handleAPIMemoryUpdate up to the form value: the id of the path, the lookup,
\* 404 when nothing is found, "if value == "" { value = mem.Value }".
UpdateFind ==
    /\ upd.pc = "idle"
    /\ \E id \in 0..2, value \in Values \cup {""}, dbUp \in BOOLEAN :
         LET found == findMemoryByID(id, dbUp)
         IN IF found = {}
            THEN upd' = [NoUpdate EXCEPT !.pc = "done", !.id = id, !.value = value,
                                         !.status = 404]
            ELSE \E mem \in found :
                    upd' = [NoUpdate EXCEPT !.pc = "found", !.id = id, !.value = value,
                                            !.mem = <<mem>>]
    /\ UNCHANGED <<storeVars, ops, last, embedVars, mcpVars, searchVars, busVars, dashVars, mode, mig, bf>>

\* handleAPIMemoryUpdate from Embed on: SetMemory with the key of the memory
\* found and the form value, or the value found when the form has none.
UpdateSet ==
    /\ upd.pc = "found"
    /\ \E resp \in HandlerResponses, dbUp \in BOOLEAN :
         LET mem == upd.mem[1]
             value == IF upd.value = "" THEN mem.value ELSE upd.value
             emb == Embed(embCfg, value, resp)
             res == SetMemory([project_id |-> mem.project_id, topic |-> mem.topic,
                               key |-> mem.key, value |-> value], emb, dbUp)
         IN /\ memories' = res.rows
            /\ memSeq' = res.seq
            /\ upd' = [upd EXCEPT !.pc = "done",
                                  !.status = IF res.err THEN 500 ELSE 200,
                                  !.atWrite = {r.value : r \in GetMemory(mem.project_id,
                                                                        mem.topic, mem.key)},
                                  !.written = value]
    /\ UNCHANGED <<projects, sessions, file_index, usage_stats, sessSeq, fileSeq, ops, last,
                   embedVars, mcpVars, searchVars, busVars, dashVars, mode, mig, bf>>

WebUpdateNext ==
    \/ UpdateFind
    \/ UpdateSet
    \/ StoreSetMemory
    \/ StoreDeleteMemory

SpecWebUpdate == WebInit /\ [][WebUpdateNext]_vars

\* C22: an update without a value preserves the note's current value.  When the
\* handler, called with an empty value, has written, the note existed at the
\* moment of the write and the value written is the value it held then: the
\* update neither changes the stored value nor re-creates a deleted note.
C22_ValuelessUpdateKeepsValue ==
    (upd.pc = "done" /\ upd.value = "" /\ upd.status = 200)
        => upd.atWrite = {upd.written}

(***************************************************************************)
(* main: the process after start-up.  The MCP server is bound to a         *)
(* transport in the modes "sse" and "stdio" (every other value of          *)
(* cfg.Transport); in the mode "web" the process serves the dashboard's    *)
(* routes only, and only there SetEvents is called.                        *)
(***************************************************************************)
Transports == {"stdio", "sse", "web"}

\* The state main leaves when it starts the transport, two requests before the
\* bound on the operations.
MainInit ==
    /\ EmptyStore
    /\ ops = MaxOps - 2
    /\ last = NoOp
    /\ embCfg \in {New("", ColumnDim), New("http://localhost:8091/embed", ColumnDim)}
    /\ EmbedIdle
    /\ mode \in Transports
    /\ eventsWired = (mode = "web")
    /\ published = 0
    /\ okCalls = 0
    /\ lastCall = NoCall
    /\ SearchIdle
    /\ BusIdle
    /\ DashIdle
    /\ upd = NoUpdate
    /\ mig = NoMigration
    /\ bf = NoBackfill

\* The requests the process serves: tool calls on the MCP transport, or the
\* dashboard's memory routes.
MainNext ==
    \/ mode \in {"stdio", "sse"} /\ Next
    \/ mode = "web" /\ (UpdateFind \/ StoreSetMemory \/ StoreDeleteMemory)

SpecMain == MainInit /\ [][MainNext]_vars

\* C28: whenever an MCP tool call completes and is accounted for, a
\* "dashboard-stats" event is published: in every transport mode in which tool
\* handlers are invoked, the MCP server has the web server's event bus wired.
C28_ToolCallsPublish ==
    (lastCall.tool # "none" /\ UsageAttempts(lastCall) > 0)
        => (eventsWired /\ published > 0)

(***************************************************************************)
(* RunMigrations.  Each statement goes to the pool on its own: the check,  *)
(* the migration's SQL and the INSERT into schema_migrations are three     *)
(* steps, and a second process (another devmemory --migrate against the    *)
(* same database) runs between them.  A failed statement ends the call.    *)
(***************************************************************************)
\* sort.Strings(files): the migration files in lexicographic order
MigrationFiles == <<"001_initial_schema.sql", "003_usage_stats.sql">>

MigAt(m) == MigrationFiles[mig.pc[m].at]

\* The loop goes on to the next file, or RunMigrations returns nil.
MigAdvance(m) ==
    IF mig.pc[m].at < Len(MigrationFiles)
    THEN [step |-> "check", at |-> mig.pc[m].at + 1]
    ELSE [step |-> "done", at |-> 0]

MigFailed == [step |-> "failed", at |-> 0]

\* RunMigrations is called: CREATE TABLE IF NOT EXISTS schema_migrations, Glob.
MigrateCall(m) ==
    /\ mig.pc[m].step \in {"idle", "done", "failed"}
    /\ mig.runs < MaxRuns
    /\ \E ok \in BOOLEAN :
         mig' = [mig EXCEPT !.runs = @ + 1,
                            !.pc[m] = IF ok THEN [step |-> "check", at |-> 1] ELSE MigFailed]
    /\ UNCHANGED <<storeVars, ops, last, embedVars, mcpVars, searchVars, busVars, dashVars,
                   upd, mode, bf>>

\* SELECT EXISTS(SELECT 1 FROM schema_migrations WHERE version=$1)
MigrateCheck(m) ==
    /\ mig.pc[m].step = "check"
    /\ \E ok \in BOOLEAN :
         mig' = [mig EXCEPT !.pc[m] = IF ~ok THEN MigFailed
                                      ELSE IF MigAt(m) \in mig.versions THEN MigAdvance(m)
                                      ELSE [@ EXCEPT !.step = "apply"]]
    /\ UNCHANGED <<storeVars, ops, last, embedVars, mcpVars, searchVars, busVars, dashVars,
                   upd, mode, bf>>

\* os.ReadFile(f); pool.Exec(ctx, string(sql))
MigrateApply(m) ==
    /\ mig.pc[m].step = "apply"
    /\ \E ok \in BOOLEAN :
         mig' = IF ok
                THEN [mig EXCEPT !.executed = Append(@, MigAt(m)),
                                 !.pc[m] = [@ EXCEPT !.step = "record"]]
                ELSE [mig EXCEPT !.pc[m] = MigFailed]
    /\ UNCHANGED <<storeVars, ops, last, embedVars, mcpVars, searchVars, busVars, dashVars,
                   upd, mode, bf>>

\* INSERT INTO schema_migrations (version) VALUES ($1); version is the primary key
MigrateRecord(m) ==
    /\ mig.pc[m].step = "record"
    /\ \E ok \in BOOLEAN :
         mig' = IF ok /\ MigAt(m) \notin mig.versions
                THEN [mig EXCEPT !.versions = @ \cup {MigAt(m)}, !.pc[m] = MigAdvance(m)]
                ELSE [mig EXCEPT !.pc[m] = MigFailed]
    /\ UNCHANGED <<storeVars, ops, last, embedVars, mcpVars, searchVars, busVars, dashVars,
                   upd, mode, bf>>

MigrateInit ==
    /\ EmptyStore
    /\ ops = 0
    /\ last = NoOp
    /\ embCfg = New("", ColumnDim)
    /\ EmbedIdle
    /\ McpIdle
    /\ SearchIdle
    /\ BusIdle
    /\ DashIdle
    /\ ProcIdle

MigrateNext ==
    \E m \in Migrators :
        \/ MigrateCall(m)
        \/ MigrateCheck(m)
        \/ MigrateApply(m)
        \/ MigrateRecord(m)

SpecMigrate == MigrateInit /\ [][MigrateNext]_vars

FirstSessionNum == 100

Entry(stem, ext, isDir) == [stem |-> stem, ext |-> ext, isDir |-> isDir]

\* What <root>/transcripts and <root>/transcripts/phases can hold, by name.
TranscriptEntries ==
    <<Entry("INDEX", ".md", FALSE), Entry("notes", ".txt", FALSE),
      Entry("phases", "", TRUE), Entry("session-01", ".md", FALSE),
      Entry("session-02", ".md", FALSE)>>
PhaseEntries == <<Entry("phase-1", ".md", FALSE), Entry("phase-2", ".md", FALSE)>>

Listing(all, present) == SelectSeq(all, LAMBDA e : e \in present)
Range(seq) == {seq[i] : i \in DOMAIN seq}

\* The contents of a transcript: one line, trimmed, under 500 bytes.
TranscriptContents == {"", "# Kickoff", "auth"}

\* extractSummary on such a content: a header line is skipped, the first
\* paragraph is the line itself.
extractSummary(content) == IF content \in {"", "# Kickoff"} THEN "" ELSE content

BackfillProject == "p1"

\* e.IsDir() || !strings.HasSuffix(e.Name(), ".md"), or INDEX.md
SkipsEntry(e) == e.isDir \/ e.ext # ".md" \/ (e.stem = "INDEX" /\ e.ext = ".md")

BackfillDir == IF bf.pc = "transcripts" THEN bf.transcripts ELSE bf.phases

\* loadTranscriptsAsSessions returns count; main adds it to total and goes on.
BackfillReturn(b, count) ==
    [b EXCEPT !.total = @ + count, !.i = 0, !.sessionNum = 0, !.count = 0,
              !.pc = IF b.pc = "start-transcripts" \/ b.pc = "transcripts"
                     THEN "start-phases" ELSE "done"]

\* main up to the transcripts: embedding.New, CreateProject (exit status 1 on error).
BackfillRegister ==
    /\ bf.pc = "idle"
    /\ \E dbUp \in BOOLEAN :
         LET res == CreateProject([id |-> BackfillProject, name |-> "demo"], dbUp)
         IN /\ projects' = res.rows
            /\ bf' = [bf EXCEPT !.pc = IF res.err THEN "exit" ELSE "start-transcripts"]
    /\ UNCHANGED <<memories, sessions, file_index, usage_stats, memSeq, sessSeq, fileSeq,
                   ops, last, embedVars, mcpVars, searchVars, busVars, dashVars,
                   upd, mode, mig>>

\* loadTranscriptsAsSessions up to the loop: os.ReadDir, count := 0, sessionNum := 100
BackfillReadDir ==
    /\ bf.pc \in {"start-transcripts", "start-phases"}
    /\ \E ok \in BOOLEAN :
         bf' = IF ok
               THEN [bf EXCEPT !.pc = IF bf.pc = "start-transcripts" THEN "transcripts"
                                      ELSE "phases",
                               !.i = 1, !.sessionNum = FirstSessionNum, !.count = 0]
               ELSE BackfillReturn(bf, 0)
    /\ UNCHANGED <<storeVars, ops, last, embedVars, mcpVars, searchVars, busVars, dashVars,
                   upd, mode, mig>>

\* One turn of the loop over the entries, or the return after the last entry.
BackfillLoad ==
    /\ bf.pc \in {"transcripts", "phases"}
    /\ IF bf.i > Len(BackfillDir)
       THEN /\ bf' = BackfillReturn(bf, bf.count)
            /\ UNCHANGED <<sessions, sessSeq>>
       ELSE LET e == BackfillDir[bf.i]
            IN IF SkipsEntry(e)
               THEN /\ bf' = [bf EXCEPT !.i = @ + 1]
                    /\ UNCHANGED <<sessions, sessSeq>>
               ELSE \/ \* os.ReadFile fails: skip transcript
                       /\ bf' = [bf EXCEPT !.i = @ + 1]
                       /\ UNCHANGED <<sessions, sessSeq>>
                    \/ \E content \in TranscriptContents, resp \in Responses,
                          dbUp \in BOOLEAN :
                         LET title == e.stem
                             summary == extractSummary(content)
                             embText == IF summary = "" THEN title ELSE summary
                             vec == Embed(embCfg, embText, resp)
                             res == CreateSession([project_id |-> BackfillProject,
                                                   session_num |-> bf.sessionNum,
                                                   title |-> title, summary |-> summary,
                                                   content |-> content], vec, dbUp)
                         IN /\ sessions' = res.rows
                            /\ sessSeq' = res.seq
                            /\ bf' = IF res.err
                                     THEN [bf EXCEPT !.i = @ + 1]
                                     ELSE [bf EXCEPT !.i = @ + 1,
                                                     !.sessionNum = @ + 1,
                                                     !.count = @ + 1,
                                                     !.loaded = Append(@,
                                                         [dir |-> bf.pc, title |-> title,
                                                          num |-> bf.sessionNum])]
    /\ UNCHANGED <<projects, memories, file_index, usage_stats, memSeq, fileSeq,
                   ops, last, embedVars, mcpVars, searchVars, busVars, dashVars,
                   upd, mode, mig>>

BackfillInit ==
    /\ EmptyStore
    /\ ops = 0
    /\ last = NoOp
    /\ embCfg = New("http://localhost:8091/embed", ColumnDim)
    /\ EmbedIdle
    /\ McpIdle
    /\ SearchIdle
    /\ BusIdle
    /\ DashIdle
    /\ upd = NoUpdate
    /\ mode = "component"
    /\ mig = NoMigration
    /\ \E t \in SUBSET Range(TranscriptEntries), ph \in SUBSET Range(PhaseEntries) :
         bf = [NoBackfill EXCEPT !.transcripts = Listing(TranscriptEntries, t),
                                 !.phases = Listing(PhaseEntries, ph)]

BackfillNext == BackfillRegister \/ BackfillReadDir \/ BackfillLoad

SpecBackfill == BackfillInit /\ [][BackfillNext]_vars

\* C30: when a backfill run is over, the transcript files reported as loaded
\* have pairwise distinct session numbers from 100 up, each of them is the
\* stored session of its number, and the project holds as many sessions as
\* the run counted session loads.
C30_LoadedTranscriptsKept ==
    bf.pc = "done" =>
        /\ \A i, j \in DOMAIN bf.loaded :
              i # j => bf.loaded[i].num # bf.loaded[j].num
        /\ \A i \in DOMAIN bf.loaded :
              /\ bf.loaded[i].num >= FirstSessionNum
              /\ \E r \in sessions : /\ r.project_id = BackfillProject
                                      /\ r.session_num = bf.loaded[i].num
                                      /\ r.title = bf.loaded[i].title
        /\ Cardinality({r \in sessions : r.project_id = BackfillProject}) = bf.total
====
